---------------------------- MODULE Spec2Model ----------------------------
(***************************************************************************)
(* Model of the handler evaluation pipeline (scripts/evaluate_handler.py,  *)
(* HandlerEvaluator) and of the retry controller that wraps it             *)
(* (scripts/run_challenge.py, ChallengeRunner.run_challenge).              *)
(*                                                                         *)
(* Text (a child's standard output, an exception message) is a sequence of *)
(* one-character strings, so that `in`, split, strip and int() are         *)
(* computed the way Python computes them.                                  *)
(***************************************************************************)
EXTENDS Integers, Sequences, FiniteSets, TLC

(***************************************************************************)
(* Bounds of the model.                                                    *)
(***************************************************************************)
\* Largest retry budget explored (max_retries ranges over 0..MaxRetries).
MaxRetries == 2
\* Number of evaluate calls made by the stand-alone evaluator driver.
MaxEvals == 2
\* Number of _save_result calls made by the writers of the Result Store.
MaxSaves == 2

(***************************************************************************)
(* Program constants.                                                      *)
(***************************************************************************)
SYNTAX_POINTS == 10
LOADS_POINTS == 20
FUNC_CAP == 50
PASS_THRESHOLD == 70
IMPORT_POINTS == 5
CLASS_POINTS == 5
PROCESS_POINTS == 10
ACTIVATE_POINTS == 10
TYPE_POINTS == 20
PAYLOAD_POINTS == 20

(***************************************************************************)
(* Python string primitives over sequences of characters.                  *)
(***************************************************************************)
Digits == <<"0", "1", "2", "3", "4", "5", "6", "7", "8", "9">>
DigitSet == {Digits[i] : i \in 1..10}
Whitespace == {" ", "\n", "\t", "\r"}

DigitVal(c) == (CHOOSE i \in 1..10 : Digits[i] = c) - 1

\* sub in s
Contains(s, sub) ==
    \E i \in 1..(Len(s) - Len(sub) + 1) : SubSeq(s, i, i + Len(sub) - 1) = sub

\* s.split(c) for a one-character separator c
RECURSIVE SplitFrom(_, _, _)
SplitFrom(s, c, acc) ==
    IF s = <<>> THEN <<acc>>
    ELSE IF Head(s) = c THEN <<acc>> \o SplitFrom(Tail(s), c, <<>>)
    ELSE SplitFrom(Tail(s), c, Append(acc, Head(s)))

Split(s, c) == SplitFrom(s, c, <<>>)

RECURSIVE LStrip(_)
LStrip(s) == IF s # <<>> /\ Head(s) \in Whitespace THEN LStrip(Tail(s)) ELSE s

RECURSIVE RStrip(_)
RStrip(s) ==
    IF s # <<>> /\ s[Len(s)] \in Whitespace THEN RStrip(SubSeq(s, 1, Len(s) - 1)) ELSE s

\* s.strip()
Strip(s) == RStrip(LStrip(s))

\* int(s) accepts an optional sign followed by at least one decimal digit
\* (surrounding whitespace is accepted too); anything else is a ValueError.
Unsigned(s) == IF s # <<>> /\ Head(s) \in {"+", "-"} THEN Tail(s) ELSE s

IsIntLiteral(s) ==
    LET u == Unsigned(Strip(s))
    IN  u # <<>> /\ \A i \in 1..Len(u) : u[i] \in DigitSet

RECURSIVE NatOf(_)
NatOf(u) == IF u = <<>> THEN 0 ELSE 10 * NatOf(SubSeq(u, 1, Len(u) - 1)) + DigitVal(u[Len(u)])

ToInt(s) ==
    LET t == Strip(s)
    IN  IF t # <<>> /\ Head(t) = "-" THEN 0 - NatOf(Tail(t)) ELSE NatOf(Unsigned(t))

\* str(n), the text an f-string substitutes for an int
RECURSIVE NatToStr(_)
NatToStr(n) == IF n < 10 THEN <<Digits[n + 1]>> ELSE NatToStr(n \div 10) \o <<Digits[(n % 10) + 1]>>

IntToStr(n) == IF n < 0 THEN <<"-">> \o NatToStr(0 - n) ELSE NatToStr(n)

Min(a, b) == IF a <= b THEN a ELSE b

\* Literals of the program.
SUCCESS == <<"S", "U", "C", "C", "E", "S", "S">>
FAILED_PREFIX == <<"F", "A", "I", "L", "E", "D", ":", " ">>
SCORE_TAG == <<"S", "C", "O", "R", "E", ":">>
NL == <<"\n">>


(***************************************************************************)
(* What a candidate writes to standard output while a child executes it.   *)
(* A line is described by its kind; Render gives its characters.           *)
(***************************************************************************)
NoiseLine == [kind |-> "noise", n |-> 0]
SuccessLine == [kind |-> "success", n |-> 0]
BadScoreLine == [kind |-> "badscore", n |-> 0]
ScoreLine(n) == [kind |-> "score", n |-> n]
PrefixedLine(n) == [kind |-> "prefixed", n |-> n]
SuffixedLine(n) == [kind |-> "suffixed", n |-> n]

RenderLine(l) ==
    CASE l.kind = "noise" -> <<"h", "i">> \o NL
      [] l.kind = "success" -> SUCCESS \o NL
      [] l.kind = "badscore" -> SCORE_TAG \o <<" ", "n", "/", "a">> \o NL
      [] l.kind = "score" -> SCORE_TAG \o <<" ">> \o IntToStr(l.n) \o NL
      [] l.kind = "prefixed" -> <<"a", ":">> \o SCORE_TAG \o <<" ">> \o IntToStr(l.n) \o NL
      [] l.kind = "suffixed" -> SCORE_TAG \o <<" ">> \o IntToStr(l.n) \o <<":", "3", "0">> \o NL

RECURSIVE Render(_)
Render(ls) == IF ls = <<>> THEN <<>> ELSE RenderLine(Head(ls)) \o Render(Tail(ls))

(***************************************************************************)
(* State.                                                                  *)
(***************************************************************************)
VARIABLES
    level,          \* challenge level of the run / of the evaluate call
    epc,            \* position inside HandlerEvaluator.evaluate
    scores,         \* the scores dict of the evaluate call in progress
    retval,         \* value returned by the last evaluate call
    obs,            \* what the phases of the evaluate call in progress met
    live,           \* child processes started by the evaluator and still running
    evals,          \* evaluate calls made by the stand-alone driver
    pc,             \* position inside ChallengeRunner.run_challenge
    max_retries,    \* retry budget of the run
    attempt,        \* loop variable of `for attempt in range(max_retries)`
    best_score,
    best_handler,   \* 0 is None, k is the path of handler_attempt<k>.py
    attempts,       \* list of attempt records
    genCalls,       \* calls of model_client.generate made by the run
    final_handler,  \* 0: handler.py not written by this run, k: copy of attempt k
    results,        \* the result dicts the run has handed to _save_result
    disk,           \* the files of the run's directory: disk[k] is the content of
                    \* handler_attempt<k>.py, disk[0] the content of handler.py
    file,           \* results.json: its state and, when well-formed, its JSON text
    wpc,            \* position of each writer inside _save_result
    wlocal,         \* the local list `results` of each writer
    wrec,           \* the argument `result` of each writer
    saves,          \* _save_result calls made by the writers
    expected,       \* the records that _save_result calls have returned after writing
    st,             \* a _check_structure call taken by itself: its frame
    ft,             \* _test_functionality calls taken by themselves: the frame
                    \* of the call in progress, the temporary file, the child
    fs,             \* the generated/ directory: the files that runs of several
                    \* models and levels have written, each with its writer
    cli,            \* one invocation of a command-line script: its options, the
                    \* run_challenge calls it makes, the attempts of each
    pair            \* a ChallengeRunner and a SimpleVerboseRunner run side by
                    \* side on the same attempt outcomes

storeVars == <<file, wpc, wlocal, wrec, saves, expected>>
sessionVars == <<fs, cli, pair>>
evalVars == <<level, epc, scores, retval, obs, live, evals>>
runVars == <<pc, max_retries, attempt, best_score, best_handler, attempts,
             genCalls, final_handler, results, disk>>
vars == <<level, epc, scores, retval, obs, live, evals, pc, max_retries, attempt,
          best_score, best_handler, attempts, genCalls, final_handler, results, disk,
          file, wpc, wlocal, wrec, saves, expected, st, ft, fs, cli, pair>>

\* Levels the evaluator is called with: 1 has level-specific tests in the
\* generated script, 2 stands for the levels that have none.
Levels == {1, 2}
\* Level of the modelled run_challenge call.  The controller only hands the
\* level on to evaluate, and every score a level without tests can give is
\* also a score of level 1.
RunLevels == {1}

ZeroScores == [syntax |-> 0, structure |-> 0, loads |-> 0, functionality |-> 0]

NoObs == [parse |-> "none", structRuns |-> 0,
          loadStarts |-> 0, loadEnv |-> "none", loadInst |-> "none",
          loadToken |-> FALSE, loadExit |-> 0,
          funcStarts |-> 0, funcEnv |-> "none", funcHasN |-> FALSE, funcN |-> 0,
          funcRet |-> 0, funcRaised |-> FALSE, funcOwn |-> FALSE]

\* obs is the record that the stand-alone driver keeps of the call it made;
\* inside a run of run_challenge nothing is recorded.
Observed(o) == IF pc = "driver" THEN o ELSE NoObs

\* A sum that leaves the load bonus out.
Total_WithoutLoads(sc) == sc.syntax + sc.structure + sc.functionality

\* total = sum(scores.values())
Total(sc) == sc.syntax + sc.structure + sc.loads + sc.functionality

(***************************************************************************)
(* _check_syntax: True, False on SyntaxError, or another exception (from   *)
(* open/read or from ast.parse) that the method does not catch.            *)
(***************************************************************************)
ParseOutcomes == {"ok", "SyntaxError", "OtherError"}

(***************************************************************************)
(* _check_structure over the parse tree: src.base_import says whether some *)
(* ImportFrom names a module containing 'zephyr.handlers.base'; src.classes*)
(* lists the ClassDef nodes in ast.walk order, each with `hot` (a base     *)
(* Name with id 'HotHandler') and `process` (a def or async def named      *)
(* 'process' in the class body).                                           *)
(***************************************************************************)
IsHot(c) == c.hot

_check_structure(src) ==
    LET handler_classes == SelectSeq(src.classes, IsHot)
        s1 == IF src.base_import THEN IMPORT_POINTS ELSE 0
        s2 == IF handler_classes # <<>> THEN CLASS_POINTS ELSE 0
        s3 == IF handler_classes # <<>> /\ handler_classes[1].process
              THEN PROCESS_POINTS ELSE 0
    IN  s1 + s2 + s3

ClassNodes == [hot : BOOLEAN, process : BOOLEAN]
Sources == [base_import : BOOLEAN,
            classes : {<<>>} \cup {<<c>> : c \in ClassNodes}
                      \cup {<<c, d>> : c \in {[hot |-> TRUE, process |-> FALSE]},
                                       d \in {[hot |-> TRUE, process |-> TRUE]}}]

(***************************************************************************)
(* The parse tree as _check_structure reads it.                            *)
(*   tree.imports: the Import and ImportFrom nodes, each with its module   *)
(*                 (<<>> is the None of `from . import x`);                *)
(*   tree.classes: the ClassDef nodes in ast.walk order, each with its     *)
(*                 bases (Name or Attribute expressions) and the nodes of  *)
(*                 its body.                                               *)
(* Analyze gives the three facts that the probes establish.                *)
(***************************************************************************)
BASE_MODULE == <<"z", "e", "p", "h", "y", "r", ".", "h", "a", "n", "d", "l", "e", "r", "s",
                 ".", "b", "a", "s", "e">>
PKG_MODULE == SubSeq(BASE_MODULE, 1, 15)

IsBaseImport(imp) ==
    imp.node = "ImportFrom" /\ imp.module # <<>> /\ Contains(imp.module, BASE_MODULE)
IsHotBase(base) == base.node = "Name" /\ base.id = "HotHandler"
IsHandlerClass(c) == (SelectSeq(c.bases, IsHotBase) # <<>>)
IsProcessMethod(n) == n.node \in {"FunctionDef", "AsyncFunctionDef"} /\ n.name = "process"
HasProcess(c) == (SelectSeq(c.body, IsProcessMethod) # <<>>)

Analyze(tree) ==
    [base_import |-> (SelectSeq(tree.imports, IsBaseImport) # <<>>),
     classes |-> [i \in 1..Len(tree.classes) |->
                    [hot |-> IsHandlerClass(tree.classes[i]),
                     process |-> HasProcess(tree.classes[i])]]]

FromBase == [node |-> "ImportFrom", module |-> BASE_MODULE]
FromSub == [node |-> "ImportFrom", module |-> BASE_MODULE \o <<".", "x">>]
FromPkg == [node |-> "ImportFrom", module |-> PKG_MODULE]
FromRelative == [node |-> "ImportFrom", module |-> <<>>]
PlainImport == [node |-> "Import", module |-> BASE_MODULE]
ImportLists ==
    {<<>>, <<FromBase>>, <<FromSub>>, <<FromPkg>>, <<FromRelative>>, <<PlainImport>>,
     <<FromPkg, FromBase>>}

HotName == [node |-> "Name", id |-> "HotHandler"]
OtherName == [node |-> "Name", id |-> "object"]
HotAttribute == [node |-> "Attribute", id |-> "HotHandler"]
Def(name) == [node |-> "FunctionDef", name |-> name]
AsyncDef(name) == [node |-> "AsyncFunctionDef", name |-> name]
InnerClass(name) == [node |-> "ClassDef", name |-> name]
ClassDef(bases, body) == [bases |-> bases, body |-> body]

HotSync == ClassDef(<<HotName>>, <<Def("process")>>)
HotAsync == ClassDef(<<HotName>>, <<Def("activate"), AsyncDef("process")>>)
HotBare == ClassDef(<<HotName>>, <<Def("handle")>>)
HotSecondBase == ClassDef(<<OtherName, HotName>>, <<Def("process")>>)
HotInner == ClassDef(<<HotName>>, <<InnerClass("process")>>)
AttrHot == ClassDef(<<HotAttribute>>, <<Def("process")>>)
Plain == ClassDef(<<>>, <<AsyncDef("process")>>)
ClassLists ==
    {<<>>, <<HotSync>>, <<HotAsync>>, <<HotBare>>, <<HotSecondBase>>, <<HotInner>>,
     <<AttrHot>>, <<Plain>>,
     <<HotBare, HotSync>>, <<HotSync, HotBare>>, <<Plain, HotAsync>>, <<AttrHot, HotBare>>}
Trees == [imports : ImportLists, classes : ClassLists]

\* Where an exception is raised inside the try block of _check_structure,
\* if anywhere: while reading or parsing, or while a probe computes.
FailPoints == {"none", "open", "imports", "classes", "methods"}

(***************************************************************************)
(* The namespace that exec(code, namespace) leaves behind, in insertion    *)
(* order: each entry has a name and says whether the object is a type.     *)
(* Both child scripts walk it with the same loop.                          *)
(***************************************************************************)
HANDLER_SUFFIX == <<"H", "a", "n", "d", "l", "e", "r">>

\* name.endswith(suffix)
EndsWith(name, suffix) ==
    /\ Len(name) >= Len(suffix)
    /\ SubSeq(name, Len(name) - Len(suffix) + 1, Len(name)) = suffix

\* isinstance(obj, type) and name.endswith('Handler')
IsHandlerEntry(e) == e.is_type /\ EndsWith(e.name, HANDLER_SUFFIX)

\* The index of the entry at which the loop breaks, 0 when it runs out.
RECURSIVE FirstHandlerFrom(_, _)
FirstHandlerFrom(ns, i) ==
    IF i > Len(ns) THEN 0
    ELSE IF IsHandlerEntry(ns[i]) THEN i
    ELSE FirstHandlerFrom(ns, i + 1)

\* for name, obj in namespace.items(): ... handler = obj(MockNode()); print("SUCCESS"); break
LoaderSelect(ns) == FirstHandlerFrom(ns, 1)
\* for name, obj in namespace.items(): ... handler = obj(MockNode()); break
FuncSelect(ns) == FirstHandlerFrom(ns, 1)

\* Namespaces: the module name that the scripts put in, then up to two
\* entries of the candidate: an imported base class, a class and a function
\* with the suffix, a class without it.
Namespaces ==
    LET NameEntry == [name |-> <<"_", "_", "n", "a", "m", "e", "_", "_">>, is_type |-> FALSE]
        ImportedBase == [name |-> <<"H", "o", "t">> \o HANDLER_SUFFIX, is_type |-> TRUE]
        OwnClass == [name |-> <<"E">> \o HANDLER_SUFFIX, is_type |-> TRUE]
        OwnFunction == [name |-> <<"m", "k">> \o HANDLER_SUFFIX, is_type |-> FALSE]
        OtherClass == [name |-> HANDLER_SUFFIX \o <<"s">>, is_type |-> TRUE]
        E == {ImportedBase, OwnClass, OwnFunction, OtherClass}
    IN  {<<NameEntry>>} \cup {<<NameEntry, a>> : a \in E}
        \cup {<<NameEntry, a, b>> : a \in E, b \in E}

(***************************************************************************)
(* The loader child (the script of _check_loads): exec the candidate, find *)
(* the first class whose name ends in 'Handler', instantiate it.           *)
(*   run.writes: what the candidate writes to stdout meanwhile;            *)
(*   run.inst:   "ok", "raises" (exec or the constructor raises an         *)
(*               Exception with message run.msg) or "noclass";             *)
(*   run.exit:   the exit status of the child (the candidate may end the   *)
(*               process with any status, before or after the script's     *)
(*               print).                                                   *)
(***************************************************************************)
LoaderStdout(run) ==
    Render(run.writes) \o
    (CASE run.inst = "ok" -> SUCCESS \o NL
       [] run.inst = "raises" -> FAILED_PREFIX \o run.msg \o NL
       [] run.inst = "noclass" -> <<>>)

\* env: "ok" (the child finished within 5 s), "timeout" (subprocess.run
\* kills the child and raises TimeoutExpired) or "launch_error".
_check_loads_TimeoutPasses(env, run) ==
    IF env = "ok" THEN Contains(LoaderStdout(run), SUCCESS) ELSE env = "timeout"

\* A variant that also wants a zero exit status (check=True, or returncode == 0).
_check_loads_ChecksExit(env, run) ==
    IF env = "ok" THEN Contains(LoaderStdout(run), SUCCESS) /\ run.exit = 0 ELSE FALSE

_check_loads(env, run) ==
    IF env = "ok" THEN Contains(LoaderStdout(run), SUCCESS) ELSE FALSE

ExcMsgs == {<<"n", "o">>, SUCCESS}
LoaderWrites == {<<>>, <<NoiseLine>>, <<SuccessLine>>}
NoMsg == <<>>
ExitCodes == {0, 1}
\* A caught exception lets the script end with status 0; a child that leaves
\* through sys.exit or dies has a class found or not, and status 1.
LoaderRuns ==
    [writes : LoaderWrites, inst : {"ok", "noclass"}, msg : {NoMsg}, exit : {0}]
    \cup [writes : LoaderWrites, inst : {"raises"}, msg : ExcMsgs, exit : {0}]
    \cup [writes : {<<>>, <<SuccessLine>>}, inst : {"ok", "noclass"}, msg : {NoMsg},
          exit : ExitCodes \ {0}]
\* the run of a child that was never started, or that did not finish in time
NoLoaderRun == [writes |-> <<>>, inst |-> "noclass", msg |-> NoMsg, exit |-> 0]

\* Whether the child wrote the token SUCCESS to its standard output: the
\* script's own print, a line of the candidate, or the message of the
\* exception that the script prints after 'FAILED: '.
IsSuccessLine(l) == l.kind = "success"

WroteToken(run) ==
    \/ run.inst = "ok"
    \/ SelectSeq(run.writes, IsSuccessLine) # <<>>
    \/ run.inst = "raises" /\ run.msg = SUCCESS
LoaderEnvs == {"ok", "timeout", "launch_error"}

(***************************************************************************)
(* The functional child (the script of _create_test_script).               *)
(*   beh.writes:   what the candidate writes to stdout;                    *)
(*   beh.inst:     as for the loader child;                                *)
(*   beh.activate: "absent", "ok" or "raises";                             *)
(*   beh.process:  "raises", "none" (a falsy result) or "result", with     *)
(*                 beh.type_ok (type is 'echo_response') and               *)
(*                 beh.payload_ok ('ECHO:' in the payload).                *)
(* test_handler gives [crashed, score]: crashed means the script died with *)
(* a traceback before printing its SCORE line.                             *)
(***************************************************************************)
\* A script whose echo tests are not guarded by the level.
test_handler_AllLevels(lvl, beh) ==
    IF beh.inst = "raises" THEN [crashed |-> TRUE, score |-> 0]
    ELSE IF beh.inst = "noclass" THEN [crashed |-> FALSE, score |-> 0]
    ELSE IF beh.activate = "raises" THEN [crashed |-> TRUE, score |-> 0]
    ELSE LET a == IF beh.activate = "ok" THEN ACTIVATE_POINTS ELSE 0
         IN  IF beh.process = "raises" THEN [crashed |-> TRUE, score |-> 0]
             ELSE LET t == IF beh.process = "result" /\ beh.type_ok
                           THEN TYPE_POINTS ELSE 0
                      p == IF beh.process = "result" /\ beh.payload_ok
                           THEN PAYLOAD_POINTS ELSE 0
                  IN  [crashed |-> FALSE, score |-> a + t + p]

test_handler(lvl, beh) ==
    IF beh.inst = "raises" THEN [crashed |-> TRUE, score |-> 0]
    ELSE IF beh.inst = "noclass" THEN [crashed |-> FALSE, score |-> 0]
    ELSE IF beh.activate = "raises" THEN [crashed |-> TRUE, score |-> 0]
    ELSE LET a == IF beh.activate = "ok" THEN ACTIVATE_POINTS ELSE 0
         IN  IF lvl # 1 THEN [crashed |-> FALSE, score |-> a]
             ELSE IF beh.process = "raises" THEN [crashed |-> TRUE, score |-> 0]
             ELSE LET t == IF beh.process = "result" /\ beh.type_ok
                           THEN TYPE_POINTS ELSE 0
                      p == IF beh.process = "result" /\ beh.payload_ok
                           THEN PAYLOAD_POINTS ELSE 0
                  IN  [crashed |-> FALSE, score |-> a + t + p]

FuncStdout(lvl, beh) ==
    LET r == test_handler(lvl, beh)
    IN  Render(beh.writes) \o
        (IF r.crashed THEN <<>> ELSE SCORE_TAG \o <<" ">> \o IntToStr(r.score) \o NL)

\* The parse of the child's output in _test_functionality; a ValueError of
\* int() is caught by `except Exception` and the method returns 0.
HasScoreTag(l) == Contains(l, SCORE_TAG)

ParseScore(output) ==
    IF Contains(output, SCORE_TAG)
    THEN LET score_line == SelectSeq(Split(output, "\n"), HasScoreTag)[1]
             field == Split(score_line, ":")[2]
         IN  IF IsIntLiteral(field) THEN Min(ToInt(field), FUNC_CAP) ELSE 0
    ELSE 0

\* env: "ok" (communicate() returned within test_timeout), "timeout",
\* "launch_error" (create_subprocess_exec raised) or "tmpfile_error".
_test_functionality(lvl, env, beh) ==
    IF env = "ok" THEN ParseScore(FuncStdout(lvl, beh)) ELSE 0


FuncWrites == {<<>>, <<NoiseLine>>, <<BadScoreLine>>}
              \cup {<<ScoreLine(n)>> : n \in {-100, 19, 9999}}
\* Fields that the script never reads on a path are fixed on that path.
FuncBehaviours ==
    [writes : FuncWrites, inst : {"raises", "noclass"}, activate : {"absent"},
     process : {"none"}, type_ok : {FALSE}, payload_ok : {FALSE}]
    \cup [writes : FuncWrites, inst : {"ok"}, activate : {"raises"},
          process : {"none"}, type_ok : {FALSE}, payload_ok : {FALSE}]
    \cup [writes : FuncWrites, inst : {"ok"}, activate : {"absent", "ok"},
          process : {"raises", "none"}, type_ok : {FALSE}, payload_ok : {FALSE}]
    \cup [writes : FuncWrites, inst : {"ok"}, activate : {"absent", "ok"},
          process : {"result"}, type_ok : BOOLEAN, payload_ok : BOOLEAN]
\* the behaviour of a child that was never started, or that did not finish in time
NoBehaviour == [writes |-> <<>>, inst |-> "noclass", activate |-> "absent",
                process |-> "none", type_ok |-> FALSE, payload_ok |-> FALSE]
FuncEnvs == {"ok", "timeout", "launch_error", "tmpfile_error"}

\* The integer carried by the first line of the child's output that holds
\* 'SCORE:', as the child wrote it (has = FALSE: no such line, or no integer).
IsScoreish(l) == l.kind \in {"score", "badscore"}

Reported(lvl, beh) ==
    LET ls == SelectSeq(beh.writes, IsScoreish)
        r == test_handler(lvl, beh)
    IN  IF ls # <<>>
        THEN IF ls[1].kind = "score" THEN [has |-> TRUE, n |-> ls[1].n]
                                     ELSE [has |-> FALSE, n |-> 0]
        ELSE IF r.crashed THEN [has |-> FALSE, n |-> 0]
                          ELSE [has |-> TRUE, n |-> r.score]

\* The script died inside `await handler.activate()` or, at level 1, inside
\* `await handler.process(msg)`.
HandlerRaised(lvl, beh) ==
    /\ beh.inst = "ok"
    /\ \/ beh.activate = "raises"
       \/ lvl = 1 /\ beh.process = "raises"

\* The first line of the child's output that holds 'SCORE:' is the one the
\* script printed itself.
OwnLineFirst(lvl, beh) ==
    /\ SelectSeq(beh.writes, IsScoreish) = <<>>
    /\ ~test_handler(lvl, beh).crashed

(***************************************************************************)
(* HandlerEvaluator.evaluate, one action per phase.                        *)
(***************************************************************************)
\* Entry of evaluate: a fresh scores dict.
EnterEvaluate ==
    /\ epc' = "syntax"
    /\ scores' = ZeroScores
    /\ obs' = NoObs

\* The caller has taken the result (or the exception): the frame is gone.
LeaveEvaluate ==
    /\ epc' = "idle"
    /\ scores' = ZeroScores
    /\ retval' = 0
    /\ obs' = NoObs

\* Where evaluate goes after _check_syntax: on, `return 0`, or the exception.
SyntaxNext_NoReturn(parse) ==
    CASE parse = "ok" -> "structure"
      [] parse = "SyntaxError" -> "structure"
      [] parse = "OtherError" -> "raised"

SyntaxNext(parse) ==
    CASE parse = "ok" -> "structure"
      [] parse = "SyntaxError" -> "returned"
      [] parse = "OtherError" -> "raised"

\* [STEP 1/4] if self._check_syntax(handler_path): ... else: return 0
CheckSyntax ==
    /\ epc = "syntax"
    /\ \E parse \in ParseOutcomes :
         /\ obs' = Observed([obs EXCEPT !.parse = parse])
         /\ scores' = IF parse = "ok" THEN [scores EXCEPT !.syntax = SYNTAX_POINTS]
                                       ELSE scores
         /\ epc' = SyntaxNext(parse)
         /\ retval' = IF parse = "SyntaxError" THEN 0 ELSE retval
    /\ UNCHANGED <<level, live, evals>>
    /\ UNCHANGED runVars
    /\ UNCHANGED storeVars
    /\ UNCHANGED <<st, ft>>
    /\ UNCHANGED sessionVars

\* [STEP 2/4] scores['structure'] = self._check_structure(handler_path)
CheckStructure ==
    /\ epc = "structure"
    /\ \E src \in Sources :
         scores' = [scores EXCEPT !.structure = _check_structure(src)]
    /\ obs' = Observed([obs EXCEPT !.structRuns = @ + 1])
    /\ epc' = "loads"
    /\ UNCHANGED <<level, retval, live, evals>>
    /\ UNCHANGED runVars
    /\ UNCHANGED storeVars
    /\ UNCHANGED <<st, ft>>
    /\ UNCHANGED sessionVars

\* An evaluate that goes on to the functional phase whatever the loader said.
CheckLoads_AlwaysOn ==
    /\ epc = "loads"
    /\ \E env \in LoaderEnvs :
       \E run \in (IF env = "ok" THEN LoaderRuns ELSE {NoLoaderRun}) :
         /\ obs' = Observed(
                      [obs EXCEPT !.loadStarts = @ + (IF env = "launch_error" THEN 0 ELSE 1),
                                  !.loadEnv = env,
                                  !.loadInst = IF env = "ok" THEN run.inst ELSE "none",
                                  !.loadToken = env = "ok" /\ WroteToken(run),
                                  !.loadExit = run.exit])
         /\ scores' = IF _check_loads(env, run)
                      THEN [scores EXCEPT !.loads = LOADS_POINTS] ELSE scores
         /\ epc' = "functionality"
         /\ retval' = retval
    /\ UNCHANGED <<level, live, evals>>
    /\ UNCHANGED runVars
    /\ UNCHANGED storeVars
    /\ UNCHANGED <<st, ft>>
    /\ UNCHANGED sessionVars

\* [STEP 3/4] if self._check_loads(handler_path): ... else: return total.
\* subprocess.run has reaped the child when it returns, and kills it before
\* raising TimeoutExpired.
CheckLoads ==
    /\ epc = "loads"
    /\ \E env \in LoaderEnvs :
       \E run \in (IF env = "ok" THEN LoaderRuns ELSE {NoLoaderRun}) :
         /\ obs' = Observed(
                      [obs EXCEPT !.loadStarts = @ + (IF env = "launch_error" THEN 0 ELSE 1),
                                  !.loadEnv = env,
                                  !.loadInst = IF env = "ok" THEN run.inst ELSE "none",
                                  !.loadToken = env = "ok" /\ WroteToken(run),
                                  !.loadExit = run.exit])
         /\ IF _check_loads(env, run)
            THEN /\ scores' = [scores EXCEPT !.loads = LOADS_POINTS]
                 /\ epc' = "functionality"
                 /\ retval' = retval
            ELSE /\ scores' = scores
                 /\ epc' = "returned"
                 /\ retval' = Total(scores)
    /\ UNCHANGED <<level, live, evals>>
    /\ UNCHANGED runVars
    /\ UNCHANGED storeVars
    /\ UNCHANGED <<st, ft>>
    /\ UNCHANGED sessionVars

\* [STEP 4/4] scores['functionality'] = await self._test_functionality(...);
\* return total.  On asyncio.TimeoutError the child is left running.
TestFunctionality ==
    /\ epc = "functionality"
    /\ \E env \in FuncEnvs :
       \E beh \in (IF env = "ok" THEN FuncBehaviours ELSE {NoBehaviour}) :
         LET f == _test_functionality(level, env, beh)
             sc == [scores EXCEPT !.functionality = f]
             rep == IF env = "ok" THEN Reported(level, beh) ELSE [has |-> FALSE, n |-> 0]
         IN  /\ scores' = sc
             /\ retval' = Total(sc)
             /\ obs' = Observed(
                          [obs EXCEPT !.funcStarts = @ + (IF env \in {"ok", "timeout"} THEN 1 ELSE 0),
                                      !.funcEnv = env,
                                      !.funcHasN = rep.has,
                                      !.funcN = rep.n,
                                      !.funcRet = f,
                                      !.funcRaised = env = "ok" /\ HandlerRaised(level, beh),
                                      !.funcOwn = env = "ok" /\ OwnLineFirst(level, beh)])
             /\ live' = IF env = "timeout" THEN live + 1 ELSE live
    /\ epc' = "returned"
    /\ UNCHANGED <<level, evals>>
    /\ UNCHANGED runVars
    /\ UNCHANGED storeVars
    /\ UNCHANGED <<st, ft>>
    /\ UNCHANGED sessionVars

\* A child that was left running ends by itself.
ChildExits ==
    /\ live > 0
    /\ live' = live - 1
    /\ UNCHANGED <<level, epc, scores, retval, obs, evals>>
    /\ UNCHANGED runVars
    /\ UNCHANGED storeVars
    /\ UNCHANGED <<st, ft>>
    /\ UNCHANGED sessionVars

\* A caller that is not run_challenge invokes evaluate, again and again.
CallEvaluate ==
    /\ pc = "driver"
    /\ epc \in {"idle", "returned", "raised"}
    /\ evals < MaxEvals
    /\ evals' = evals + 1
    /\ level' \in Levels
    /\ EnterEvaluate
    /\ UNCHANGED <<retval, live>>
    /\ UNCHANGED runVars
    /\ UNCHANGED storeVars
    /\ UNCHANGED <<st, ft>>
    /\ UNCHANGED sessionVars


(***************************************************************************)
(* _check_structure taken by itself, one action per probe.  st.fail says   *)
(* where the try block raises, st.raised whether it did.                   *)
(***************************************************************************)
NoStruct == [pc |-> "idle", tree |-> [imports |-> <<>>, classes |-> <<>>],
             fail |-> "none", raised |-> FALSE, score |-> 0]

handler_classes(tree) == SelectSeq(tree.classes, IsHandlerClass)

StructFrame ==
    /\ UNCHANGED evalVars
    /\ UNCHANGED runVars
    /\ UNCHANGED storeVars
    /\ UNCHANGED ft
    /\ UNCHANGED sessionVars

\* with open(handler_path) as f: code = f.read(); tree = ast.parse(code)
StructOpen ==
    /\ st.pc = "open"
    /\ st' = IF st.fail = "open"
             THEN [st EXCEPT !.pc = "except", !.raised = TRUE]
             ELSE [st EXCEPT !.pc = "imports"]
    /\ StructFrame

\* has_base_import = any(...); if has_base_import: score += 5
ProbeImports ==
    /\ st.pc = "imports"
    /\ st' = IF st.fail = "imports"
             THEN [st EXCEPT !.pc = "except", !.raised = TRUE]
             ELSE [st EXCEPT !.pc = "classes",
                             !.score = @ + (IF (SelectSeq(st.tree.imports, IsBaseImport) # <<>>)
                                            THEN IMPORT_POINTS ELSE 0)]
    /\ StructFrame

\* handler_classes = [...]; if handler_classes: score += 5
ProbeClasses ==
    /\ st.pc = "classes"
    /\ st' = IF st.fail = "classes"
             THEN [st EXCEPT !.pc = "except", !.raised = TRUE]
             ELSE [st EXCEPT !.pc = "methods",
                             !.score = @ + (IF handler_classes(st.tree) # <<>>
                                            THEN CLASS_POINTS ELSE 0)]
    /\ StructFrame

\* A probe that looks for process in every handler class.
ProbeMethods_AnyClass ==
    /\ st.pc = "methods"
    /\ st' = IF handler_classes(st.tree) = <<>>
             THEN [st EXCEPT !.pc = "return"]
             ELSE IF st.fail = "methods"
             THEN [st EXCEPT !.pc = "except", !.raised = TRUE]
             ELSE [st EXCEPT !.pc = "return",
                             !.score = @ + (IF (SelectSeq(handler_classes(st.tree), HasProcess) # <<>>)
                                            THEN PROCESS_POINTS ELSE 0)]
    /\ StructFrame

\* if handler_classes: handler_class = handler_classes[0]; methods = [...];
\* if has_process: score += 10
ProbeMethods ==
    /\ st.pc = "methods"
    /\ st' = IF handler_classes(st.tree) = <<>>
             THEN [st EXCEPT !.pc = "return"]
             ELSE IF st.fail = "methods"
             THEN [st EXCEPT !.pc = "except", !.raised = TRUE]
             ELSE [st EXCEPT !.pc = "return",
                             !.score = @ + (IF HasProcess(handler_classes(st.tree)[1])
                                            THEN PROCESS_POINTS ELSE 0)]
    /\ StructFrame

\* An except clause that starts the score again from 0.
StructExcept_Resets ==
    /\ st.pc = "except"
    /\ st' = [st EXCEPT !.pc = "return", !.score = 0]
    /\ StructFrame

\* except Exception as e: logger.error(...)
StructExcept ==
    /\ st.pc = "except"
    /\ st' = [st EXCEPT !.pc = "return"]
    /\ StructFrame

\* return score
StructReturn ==
    /\ st.pc = "return"
    /\ st' = [st EXCEPT !.pc = "returned"]
    /\ StructFrame


(***************************************************************************)
(* _test_functionality taken by itself, one action per step of its try     *)
(* block.  Fields of ft:                                                   *)
(*   pc     position in the method;  calls  calls made so far;             *)
(*   level, beh   the level asked for, what the child did;                 *)
(*   tmp    the temporary script file of this call ("absent", "exists");   *)
(*   bound  whether the local name test_file has been assigned;            *)
(*   child  "none", "running" or "exited";                                 *)
(*   exc    the exception in flight, pend  the value of a return statement *)
(*          waiting for the finally block, ret  the value returned;        *)
(*   env    how the call went (as the env of _test_functionality);         *)
(*   leaked temporary files that earlier calls left behind;                *)
(*   prev   the level, the script's own result and the value returned of   *)
(*          the call before this one.                                      *)
(***************************************************************************)
MaxFuncRuns == 2
\* 1: the echo tests; 2: test cases listed in _get_test_cases, none in the
\* script; 3: no test cases anywhere.
FuncLevels == {1, 2, 3}

FuncUnitBehaviours ==
    FuncBehaviours
    \cup [writes : {<<PrefixedLine(7)>>, <<SuffixedLine(5)>>}, inst : {"ok", "raises"},
          activate : {"ok"}, process : {"result"}, type_ok : {TRUE}, payload_ok : {TRUE}]

NoPend == [has |-> FALSE, v |-> 0]
NoPrev == [has |-> FALSE, level |-> 0, normal |-> FALSE, crashed |-> FALSE,
           score |-> 0, ret |-> 0]
NoFunc == [pc |-> "idle", calls |-> 0, level |-> 0, beh |-> NoBehaviour,
           tmp |-> "absent", bound |-> FALSE, child |-> "none", exc |-> "none",
           pend |-> NoPend, ret |-> 0, env |-> "none", leaked |-> 0, prev |-> NoPrev]

FuncFrame ==
    /\ UNCHANGED evalVars
    /\ UNCHANGED runVars
    /\ UNCHANGED storeVars
    /\ UNCHANGED st
    /\ UNCHANGED sessionVars

\* The call: test_cases = self._get_test_cases(level);
\* test_script = self._create_test_script(handler_path, test_cases, level)
FuncCall ==
    /\ pc = "func_unit"
    /\ ft.pc \in {"idle", "returned", "raised"}
    /\ ft.calls < MaxFuncRuns
    /\ \E lvl \in FuncLevels :
         ft' = [NoFunc EXCEPT
                  !.pc = "tmpfile",
                  !.calls = ft.calls + 1,
                  !.level = lvl,
                  !.leaked = ft.leaked + (IF ft.tmp = "exists" THEN 1 ELSE 0),
                  !.prev = IF ft.pc = "returned"
                           THEN [has |-> TRUE, level |-> ft.level,
                                 normal |-> ft.env = "ok",
                                 crashed |-> test_handler(ft.level, ft.beh).crashed,
                                 score |-> test_handler(ft.level, ft.beh).score,
                                 ret |-> ft.ret]
                           ELSE ft.prev]
    /\ FuncFrame

\* with tempfile.NamedTemporaryFile(mode='w', suffix='.py', delete=False) as f:
\*     f.write(test_script); test_file = f.name
\* The file exists as soon as NamedTemporaryFile has returned.
FuncTmpFile ==
    /\ ft.pc = "tmpfile"
    /\ \/ ft' = [ft EXCEPT !.tmp = "exists", !.bound = TRUE, !.pc = "spawn"]
       \/ ft' = [ft EXCEPT !.exc = "OSError", !.env = "tmpfile_error", !.pc = "except"]
       \/ ft' = [ft EXCEPT !.tmp = "exists", !.exc = "OSError", !.env = "tmpfile_error",
                           !.pc = "except"]
    /\ FuncFrame

\* result = await asyncio.create_subprocess_exec(sys.executable, test_file, ...)
FuncSpawn ==
    /\ ft.pc = "spawn"
    /\ \/ ft' = [ft EXCEPT !.child = "running", !.pc = "wait"]
       \/ ft' = [ft EXCEPT !.exc = "OSError", !.env = "launch_error", !.pc = "except"]
    /\ FuncFrame

\* stdout, stderr = await asyncio.wait_for(result.communicate(), timeout=...)
FuncWait ==
    /\ ft.pc = "wait"
    /\ \/ \E beh \in FuncUnitBehaviours :
            ft' = [ft EXCEPT !.child = "exited", !.beh = beh, !.env = "ok", !.pc = "parse"]
       \/ ft' = [ft EXCEPT !.exc = "TimeoutError", !.env = "timeout", !.pc = "except"]
    /\ FuncFrame

\* output = stdout.decode(); if 'SCORE:' in output: ... return final_score
\* else: return 0
FuncParse ==
    /\ ft.pc = "parse"
    /\ LET output == FuncStdout(ft.level, ft.beh)
       IN  IF Contains(output, SCORE_TAG)
           THEN LET score_line == SelectSeq(Split(output, "\n"), HasScoreTag)[1]
                    field == Strip(Split(score_line, ":")[2])
                IN  IF IsIntLiteral(field)
                    THEN ft' = [ft EXCEPT !.pend = [has |-> TRUE,
                                                    v |-> Min(ToInt(field), FUNC_CAP)],
                                          !.pc = "finally"]
                    ELSE ft' = [ft EXCEPT !.exc = "ValueError", !.pc = "except"]
           ELSE ft' = [ft EXCEPT !.pend = [has |-> TRUE, v |-> 0], !.pc = "finally"]
    /\ FuncFrame

\* An except block without the `except Exception` clause.
FuncExcept_OnlyTimeout ==
    /\ ft.pc = "except"
    /\ ft' = [ft EXCEPT !.exc = IF ft.exc = "TimeoutError" THEN "none" ELSE @,
                        !.pc = "finally"]
    /\ FuncFrame

\* except asyncio.TimeoutError: ... except Exception as e: ...
FuncExcept ==
    /\ ft.pc = "except"
    /\ ft' = [ft EXCEPT !.exc = "none", !.pc = "finally"]
    /\ FuncFrame

\* finally: if 'test_file' in locals(): Path(test_file).unlink(missing_ok=True)
\* and then the pending return, the exception, or `return 0`.
FuncFinally ==
    /\ ft.pc = "finally"
    /\ ft' = [ft EXCEPT !.tmp = IF ft.bound THEN "absent" ELSE @,
                        !.pc = IF ft.exc # "none" THEN "raised" ELSE "returned",
                        !.ret = IF ft.exc = "none" /\ ft.pend.has THEN ft.pend.v ELSE 0]
    /\ FuncFrame


(***************************************************************************)
(* ChallengeRunner.run_challenge.                                          *)
(***************************************************************************)
\* Contents of a file of the run's directory: what an earlier run of the same
\* model and challenge left there, an unfinished write, or the code that
\* attempt k of this run generated (k itself).
Stale == -1
Partial == -2
\* The directory as an earlier run with the same budget left it.
StaleDisk == [k \in 0..MaxRetries |-> Stale]

\* The attempt records: dicts, whose keys are the record's fields.
\* A record numbered with the loop variable itself.
ScoredRecord_ZeroBased(k, score) == [attempt |-> k - 1, score |-> score, path |-> k]

ScoredRecord(k, score) == [attempt |-> k, score |-> score, path |-> k]
ErrorRecord(k, msg) == [attempt |-> k, score |-> 0, error |-> msg, time |-> "elapsed"]

\* A variant of the except clause that gives up the run.
Except_Breaks(msg) ==
    /\ attempts' = Append(attempts, ErrorRecord(attempt + 1, msg))
    /\ attempt' = attempt
    /\ pc' = "finalize"
    /\ UNCHANGED <<max_retries, best_score, best_handler, final_handler, results>>

\* except Exception as e: attempts.append({... 'score': 0, 'error': str(e) ...}),
\* then the next iteration of the for loop.
Except(msg) ==
    /\ attempts' = Append(attempts, ErrorRecord(attempt + 1, msg))
    /\ attempt' = attempt + 1
    /\ pc' = "loop"
    /\ UNCHANGED <<max_retries, best_score, best_handler, final_handler, results>>

\* i in range(n), for the i >= 0 that the loop counts through
InRange_Inclusive(i, n) == i <= n

InRange(i, n) == i < n

\* A loop that does not fall through when the range is used up.
LoopHead_NeverFallsThrough ==
    /\ pc = "loop"
    /\ pc' = IF InRange(attempt, max_retries) THEN "prompt" ELSE "loop"
    /\ UNCHANGED <<max_retries, attempt, best_score, best_handler, attempts,
                   genCalls, final_handler, results>>
    /\ UNCHANGED evalVars
    /\ UNCHANGED storeVars
    /\ UNCHANGED <<st, ft>>
    /\ UNCHANGED sessionVars
    /\ UNCHANGED disk

\* for attempt in range(max_retries):
LoopHead ==
    /\ pc = "loop"
    /\ pc' = IF InRange(attempt, max_retries) THEN "prompt" ELSE "finalize"
    /\ UNCHANGED <<max_retries, attempt, best_score, best_handler, attempts,
                   genCalls, final_handler, results>>
    /\ UNCHANGED evalVars
    /\ UNCHANGED storeVars
    /\ UNCHANGED <<st, ft>>
    /\ UNCHANGED sessionVars
    /\ UNCHANGED disk

\* prompt = self.prompt_optimizer.create_prompt(model, challenge_name, level)
CreatePrompt ==
    /\ pc = "prompt"
    /\ \/ /\ pc' = "generate"
          /\ UNCHANGED <<max_retries, attempt, best_score, best_handler, attempts,
                         final_handler, results>>
       \/ Except("prompt")
    /\ UNCHANGED genCalls
    /\ UNCHANGED evalVars
    /\ UNCHANGED storeVars
    /\ UNCHANGED <<st, ft>>
    /\ UNCHANGED sessionVars
    /\ UNCHANGED disk

\* A loop body that evaluates without having written the candidate.
Generate_SkipsPersist ==
    /\ pc = "generate"
    /\ genCalls' = genCalls + 1
    /\ \/ /\ pc' = "evaluate"
          /\ UNCHANGED <<max_retries, attempt, best_score, best_handler, attempts,
                         final_handler, results>>
       \/ Except("generate")
    /\ UNCHANGED evalVars
    /\ UNCHANGED storeVars
    /\ UNCHANGED <<st, ft>>
    /\ UNCHANGED sessionVars
    /\ UNCHANGED disk

\* handler_code = await self.model_client.generate(model, prompt)
Generate ==
    /\ pc = "generate"
    /\ genCalls' = genCalls + 1
    /\ \/ /\ pc' = "persist"
          /\ UNCHANGED <<max_retries, attempt, best_score, best_handler, attempts,
                         final_handler, results>>
       \/ Except("generate")
    /\ UNCHANGED evalVars
    /\ UNCHANGED storeVars
    /\ UNCHANGED <<st, ft>>
    /\ UNCHANGED sessionVars
    /\ UNCHANGED disk

\* with open(handler_path, 'w') as f: f.write(handler_code)
\* When it raises, open failed (the file is as before) or the write did
\* (the file was truncated).
Persist ==
    /\ pc = "persist"
    /\ \/ /\ pc' = "evaluate"
          /\ disk' = [disk EXCEPT ![attempt + 1] = attempt + 1]
          /\ UNCHANGED <<max_retries, attempt, best_score, best_handler, attempts,
                         final_handler, results>>
       \/ /\ Except("persist")
          /\ disk' \in {disk, [disk EXCEPT ![attempt + 1] = Partial]}
    /\ UNCHANGED genCalls
    /\ UNCHANGED evalVars
    /\ UNCHANGED storeVars
    /\ UNCHANGED <<st, ft>>
    /\ UNCHANGED sessionVars

\* score = await self.evaluator.evaluate(handler_path, level): the call
Evaluate ==
    /\ pc = "evaluate"
    /\ EnterEvaluate
    /\ pc' = "evaluating"
    /\ UNCHANGED <<level, retval, live, evals>>
    /\ UNCHANGED storeVars
    /\ UNCHANGED <<st, ft>>
    /\ UNCHANGED sessionVars
    /\ UNCHANGED <<max_retries, attempt, best_score, best_handler, attempts,
                   genCalls, final_handler, results>>
    /\ UNCHANGED disk

\* if score >= 70: break
StopRetrying_Strict(score) == score > PASS_THRESHOLD

StopRetrying(score) == score >= PASS_THRESHOLD

\* A Decide in which an equal score replaces the best handler.
Decide_LaterWins ==
    /\ pc = "evaluating"
    /\ epc = "returned"
    /\ LET score == retval
       IN  /\ attempts' = Append(attempts, ScoredRecord(attempt + 1, score))
           /\ IF score >= best_score
              THEN best_score' = score /\ best_handler' = attempt + 1
              ELSE UNCHANGED <<best_score, best_handler>>
           /\ IF StopRetrying(score)
              THEN pc' = "finalize" /\ attempt' = attempt
              ELSE pc' = "loop" /\ attempt' = attempt + 1
    /\ LeaveEvaluate
    /\ UNCHANGED <<max_retries, genCalls, final_handler, results>>
    /\ UNCHANGED <<level, live, evals>>
    /\ UNCHANGED storeVars
    /\ UNCHANGED <<st, ft>>
    /\ UNCHANGED sessionVars
    /\ UNCHANGED disk

\* evaluate returned: append the record, keep the best, break on a pass
Decide ==
    /\ pc = "evaluating"
    /\ epc = "returned"
    /\ LET score == retval
       IN  /\ attempts' = Append(attempts, ScoredRecord(attempt + 1, score))
           /\ IF score > best_score
              THEN best_score' = score /\ best_handler' = attempt + 1
              ELSE UNCHANGED <<best_score, best_handler>>
           /\ IF StopRetrying(score)
              THEN pc' = "finalize" /\ attempt' = attempt
              ELSE pc' = "loop" /\ attempt' = attempt + 1
    /\ LeaveEvaluate
    /\ UNCHANGED <<max_retries, genCalls, final_handler, results>>
    /\ UNCHANGED <<level, live, evals>>
    /\ UNCHANGED storeVars
    /\ UNCHANGED <<st, ft>>
    /\ UNCHANGED sessionVars
    /\ UNCHANGED disk

\* evaluate raised: the except clause of the attempt
EvaluateRaised ==
    /\ pc = "evaluating"
    /\ epc = "raised"
    /\ Except("evaluate")
    /\ LeaveEvaluate
    /\ UNCHANGED genCalls
    /\ UNCHANGED <<level, live, evals>>
    /\ UNCHANGED storeVars
    /\ UNCHANGED <<st, ft>>
    /\ UNCHANGED sessionVars
    /\ UNCHANGED disk

\* if best_handler: copy it to handler.py
Finalize ==
    /\ pc = "finalize"
    /\ final_handler' = IF best_handler # 0 THEN best_handler ELSE final_handler
    /\ disk' = IF best_handler # 0 THEN [disk EXCEPT ![0] = disk[best_handler]] ELSE disk
    /\ pc' = "save"
    /\ UNCHANGED <<max_retries, attempt, best_score, best_handler, attempts,
                   genCalls, results>>
    /\ UNCHANGED evalVars
    /\ UNCHANGED storeVars
    /\ UNCHANGED <<st, ft>>
    /\ UNCHANGED sessionVars

\* A result dict that names the final path whether or not a best handler exists.
Result_KeepsPath ==
    [level |-> level,
     best_score |-> best_score,
     passed |-> best_score >= PASS_THRESHOLD,
     attempts |-> attempts,
     final_handler |-> 1]

\* A result dict that wants more than the threshold for a pass.
Result_StrictPass ==
    [level |-> level,
     best_score |-> best_score,
     passed |-> best_score > PASS_THRESHOLD,
     attempts |-> attempts,
     final_handler |-> best_handler]

\* result = {...}; self._save_result(result); return result
Result ==
    [level |-> level,
     best_score |-> best_score,
     passed |-> best_score >= PASS_THRESHOLD,
     attempts |-> attempts,
     final_handler |-> best_handler]

(***************************************************************************)
(* The Result Store: ChallengeRunner._save_result (and the identical       *)
(* SimpleVerboseRunner._save_result).                                      *)
(*                                                                         *)
(* Python values and JSON values are tagged with their type, so that       *)
(* json.dump and json.load are conversions between two data models: a      *)
(* tuple is written as an array and read back as a list.                   *)
(***************************************************************************)
PyInt(n) == [t |-> "int", v |-> n]
PyFloat(x) == [t |-> "float", v |-> x]
PyStr(parts) == [t |-> "str", v |-> parts]
PyBool(b) == [t |-> "bool", v |-> b]
PyNone == [t |-> "None", v |-> 0]
PyList(xs) == [t |-> "list", v |-> xs]
PyTuple(xs) == [t |-> "tuple", v |-> xs]
\* a dict is its items in insertion order, each <<key, value>> with a str key
PyDict(items) == [t |-> "dict", v |-> items]

\* json.dump(obj): the JSON value that is written
RECURSIVE ToJson(_)
ToJson(x) ==
    CASE x.t = "int" -> [t |-> "number", v |-> x.v]
      [] x.t = "float" -> [t |-> "real", v |-> x.v]
      [] x.t = "str" -> [t |-> "string", v |-> x.v]
      [] x.t = "bool" -> [t |-> "boolean", v |-> x.v]
      [] x.t = "None" -> [t |-> "null", v |-> 0]
      [] x.t \in {"list", "tuple"} ->
           [t |-> "array", v |-> [i \in 1..Len(x.v) |-> ToJson(x.v[i])]]
      [] x.t = "dict" ->
           [t |-> "object", v |-> [i \in 1..Len(x.v) |-> <<x.v[i][1], ToJson(x.v[i][2])>>]]

\* json.load(f): the Python value that is read
RECURSIVE FromJson(_)
FromJson(j) ==
    CASE j.t = "number" -> PyInt(j.v)
      [] j.t = "real" -> PyFloat(j.v)
      [] j.t = "string" -> PyStr(j.v)
      [] j.t = "boolean" -> PyBool(j.v)
      [] j.t = "null" -> PyNone
      [] j.t = "array" -> PyList([i \in 1..Len(j.v) |-> FromJson(j.v[i])])
      [] j.t = "object" ->
           PyDict([i \in 1..Len(j.v) |-> <<j.v[i][1], FromJson(j.v[i][2])>>])

\* The dicts that run_challenge builds.
PyAttempt(a) ==
    IF "path" \in DOMAIN a
    THEN PyDict(<< <<"attempt", PyInt(a.attempt)>>,
                   <<"score", PyInt(a.score)>>,
                   <<"path", PyStr(<<"handler_attempt", a.path, ".py">>)>> >>)
    ELSE PyDict(<< <<"attempt", PyInt(a.attempt)>>,
                   <<"score", PyInt(a.score)>>,
                   <<"error", PyStr(<<a.error>>)>>,
                   <<"time", PyFloat(<<a.time>>)>> >>)

PyResult(r) ==
    PyDict(<< <<"model", PyStr(<<"model">>)>>,
              <<"challenge", PyStr(<<"level", r.level>>)>>,
              <<"level", PyInt(r.level)>>,
              <<"timestamp", PyStr(<<"now">>)>>,
              <<"best_score", PyInt(r.best_score)>>,
              <<"passed", PyBool(r.passed)>>,
              <<"attempts", PyList([i \in 1..Len(r.attempts) |-> PyAttempt(r.attempts[i])])>>,
              <<"final_handler",
                IF r.final_handler # 0 THEN PyStr(<<"handler.py">>) ELSE PyNone>> >>)

\* results.json is missing, holds a JSON text, or holds an unfinished text
\* (open(..., 'w') has truncated it and json.dump has not completed).
MissingFile == [state |-> "missing", data |-> ToJson(PyList(<<>>))]
PartialFile == [state |-> "partial", data |-> ToJson(PyList(<<>>))]
WrittenFile(xs) == [state |-> "ok", data |-> ToJson(PyList(xs))]

\* if self.results_file.exists(): results = json.load(f) else: results = []
LoadedList_AlwaysEmpty(f) == <<>>

LoadedList(f) == IF f.state = "missing" THEN <<>> ELSE FromJson(f.data).v

\* results.append(result)
AppendResult(loaded, r) == Append(loaded, r)

Writers == {1, 2}

\* Records of two finished runs, as run_challenge builds them.
RunPassed == [level |-> 1, best_score |-> 70, passed |-> TRUE,
              attempts |-> <<ScoredRecord(1, 70)>>, final_handler |-> 1]
RunFailed == [level |-> 2, best_score |-> 0, passed |-> FALSE,
              attempts |-> <<ErrorRecord(1, "generate")>>, final_handler |-> 0]
StoreRecords == {PyResult(RunPassed), PyResult(RunFailed)}

Resting(w) == wpc[w] \in {"idle", "done", "failed"}
\* No other writer is inside _save_result.
Exclusive(w) == \A v \in Writers \ {w} : Resting(v)

\* def _save_result(self, result): the call
SaveCall(w, r) ==
    /\ pc = "store"
    /\ Resting(w)
    /\ saves < MaxSaves
    /\ saves' = saves + 1
    /\ wrec' = [wrec EXCEPT ![w] = r]
    /\ wlocal' = [wlocal EXCEPT ![w] = <<>>]
    /\ wpc' = [wpc EXCEPT ![w] = "exists"]
    /\ UNCHANGED <<file, expected>>
    /\ UNCHANGED evalVars
    /\ UNCHANGED runVars
    /\ UNCHANGED <<st, ft>>
    /\ UNCHANGED sessionVars

\* if self.results_file.exists(): ... else: results = []; results.append(result)
SaveExists(w) ==
    /\ wpc[w] = "exists"
    /\ IF file.state = "missing"
       THEN /\ wlocal' = [wlocal EXCEPT ![w] = AppendResult(LoadedList(file), wrec[w])]
            /\ wpc' = [wpc EXCEPT ![w] = "open"]
       ELSE /\ wlocal' = wlocal
            /\ wpc' = [wpc EXCEPT ![w] = "load"]
    /\ UNCHANGED <<file, wrec, saves, expected>>
    /\ UNCHANGED evalVars
    /\ UNCHANGED runVars
    /\ UNCHANGED <<st, ft>>
    /\ UNCHANGED sessionVars

\* with open(self.results_file) as f: results = json.load(f);
\* results.append(result).  An unfinished text is a JSONDecodeError.
SaveLoad(w) ==
    /\ wpc[w] = "load"
    /\ IF file.state = "partial"
       THEN /\ wlocal' = wlocal
            /\ wpc' = [wpc EXCEPT ![w] = "failed"]
       ELSE /\ wlocal' = [wlocal EXCEPT ![w] = AppendResult(LoadedList(file), wrec[w])]
            /\ wpc' = [wpc EXCEPT ![w] = "open"]
    /\ UNCHANGED <<file, wrec, saves, expected>>
    /\ UNCHANGED evalVars
    /\ UNCHANGED runVars
    /\ UNCHANGED <<st, ft>>
    /\ UNCHANGED sessionVars

\* with open(self.results_file, 'w') as f: the file is truncated
SaveOpen(w) ==
    /\ wpc[w] = "open"
    /\ file' = PartialFile
    /\ wpc' = [wpc EXCEPT ![w] = "dump"]
    /\ UNCHANGED <<wlocal, wrec, saves, expected>>
    /\ UNCHANGED evalVars
    /\ UNCHANGED runVars
    /\ UNCHANGED <<st, ft>>
    /\ UNCHANGED sessionVars

\* A writer that appends to what the file holds at the time of the write.
SaveDump_Merges(w) ==
    /\ wpc[w] = "dump"
    /\ file' = WrittenFile(Append(expected, wrec[w]))
    /\ expected' = Append(expected, wrec[w])
    /\ wpc' = [wpc EXCEPT ![w] = "done"]
    /\ UNCHANGED <<wlocal, wrec, saves>>
    /\ UNCHANGED evalVars
    /\ UNCHANGED runVars
    /\ UNCHANGED <<st, ft>>
    /\ UNCHANGED sessionVars

\* json.dump(results, f, indent=2), and the file is closed
SaveDump(w) ==
    /\ wpc[w] = "dump"
    /\ file' = WrittenFile(wlocal[w])
    /\ expected' = Append(expected, wrec[w])
    /\ wpc' = [wpc EXCEPT ![w] = "done"]
    /\ UNCHANGED <<wlocal, wrec, saves>>
    /\ UNCHANGED evalVars
    /\ UNCHANGED runVars
    /\ UNCHANGED <<st, ft>>
    /\ UNCHANGED sessionVars

\* The call fails or is interrupted after the open and before json.dump has
\* written the whole text (an I/O error, a signal, the process is killed).
SaveInterrupted(w) ==
    /\ wpc[w] = "dump"
    /\ wpc' = [wpc EXCEPT ![w] = "failed"]
    /\ UNCHANGED <<file, wlocal, wrec, saves, expected>>
    /\ UNCHANGED evalVars
    /\ UNCHANGED runVars
    /\ UNCHANGED <<st, ft>>
    /\ UNCHANGED sessionVars

\* A run that saves its result dict twice.
SaveResult_Twice ==
    /\ pc = "save"
    /\ file.state # "partial"
    /\ results' = Append(Append(results, Result), Result)
    /\ file' = WrittenFile(AppendResult(AppendResult(LoadedList(file), PyResult(Result)),
                                        PyResult(Result)))
    /\ expected' = Append(Append(expected, PyResult(Result)), PyResult(Result))
    /\ pc' = "done"
    /\ UNCHANGED <<max_retries, attempt, best_score, best_handler, attempts,
                   genCalls, final_handler>>
    /\ UNCHANGED <<wpc, wlocal, wrec, saves>>
    /\ UNCHANGED evalVars
    /\ UNCHANGED <<st, ft>>
    /\ UNCHANGED sessionVars
    /\ UNCHANGED disk

\* self._save_result(result) as run_challenge calls it: the single writer of
\* the file, from the exists() test to the close.
SaveResult ==
    /\ pc = "save"
    /\ file.state # "partial"
    /\ results' = Append(results, Result)
    /\ file' = WrittenFile(AppendResult(LoadedList(file), PyResult(Result)))
    /\ expected' = Append(expected, PyResult(Result))
    /\ pc' = "done"
    /\ UNCHANGED <<max_retries, attempt, best_score, best_handler, attempts,
                   genCalls, final_handler>>
    /\ UNCHANGED <<wpc, wlocal, wrec, saves>>
    /\ UNCHANGED evalVars
    /\ UNCHANGED <<st, ft>>
    /\ UNCHANGED sessionVars
    /\ UNCHANGED disk

(***************************************************************************)
(* The paths of a run.  A path below output_dir is the sequence of its     *)
(* components; a model id is a sequence of characters, the fixed parts of  *)
(* a file name are kept in one piece.                                      *)
(***************************************************************************)
MaxWrites == 3

\* str.replace(old, new), for old and new of one character
Replace(s, old, new) == [i \in 1..Len(s) |-> IF s[i] = old THEN new ELSE s[i]]

\* names.get(level, 'unknown')
_get_challenge_name(lvl) ==
    CASE lvl = 1 -> <<"echo">>
      [] lvl = 2 -> <<"counter">>
      [] lvl = 3 -> <<"collector">>
      [] lvl = 4 -> <<"executor">>
      [] lvl = 5 -> <<"sync">>
      [] OTHER -> <<"unknown">>

\* challenge_name = f"level{level}_{self._get_challenge_name(level)}"
challenge_name(lvl) == <<"level">> \o IntToStr(lvl) \o <<"_">> \o _get_challenge_name(lvl)

\* model_dir = self.output_dir / model.replace(':', '_') / challenge_name
model_dir(model, lvl) == <<Replace(model, ":", "_"), challenge_name(lvl)>>

\* handler_path = model_dir / f'handler_attempt{attempt + 1}.py'
handler_path(model, lvl, att) ==
    Append(model_dir(model, lvl), <<"handler_attempt">> \o IntToStr(att + 1) \o <<".py">>)

\* final_path = model_dir / 'handler.py'
final_path(model, lvl) == Append(model_dir(model, lvl), <<"handler.py">>)

\* Model ids as Ollama writes them, name:tag, and a name with an underscore.
ModelIds == {<<"q", ":", "7">>, <<"q", "_", "7">>, <<"q">>}
PathLevels == {1, 2}
\* values of the loop variable
PathAttempts == {0, 1}

NoFs == [files |-> {}, lost |-> {}, writes |-> 0]

\* open(path, 'w') and write, by the run of (model, lvl): the file is
\* created or replaced.  lost collects the files of one (model, level) pair
\* that the run of another pair replaced.
WriteFile(path, model, lvl, n) ==
    /\ fs.writes < MaxWrites
    /\ fs' = [files |-> {f \in fs.files : f.path # path}
                        \cup {[path |-> path, model |-> model, level |-> lvl, attempt |-> n]},
              lost |-> fs.lost \cup {f \in fs.files : /\ f.path = path
                                                      /\ <<f.model, f.level>> # <<model, lvl>>},
              writes |-> fs.writes + 1]
    /\ UNCHANGED evalVars
    /\ UNCHANGED runVars
    /\ UNCHANGED storeVars
    /\ UNCHANGED <<st, ft, cli, pair>>

\* with open(handler_path, 'w') as f: f.write(handler_code), in some run
PathPersist ==
    /\ pc = "paths"
    /\ \E model \in ModelIds, lvl \in PathLevels, att \in PathAttempts :
         WriteFile(handler_path(model, lvl, att), model, lvl, att + 1)

\* with open(final_path, 'w') as f: f.write(content), in some run
PathFinalize ==
    /\ pc = "paths"
    /\ \E model \in ModelIds, lvl \in PathLevels :
         WriteFile(final_path(model, lvl), model, lvl, 0)

(***************************************************************************)
(* The command line: main of run_challenge.py and of                       *)
(* simple_verbose_runner.py.  Fields of cli:                               *)
(*   script        which of the two was started;                           *)
(*   model, level, all_models, all_levels, max_retries   the options       *)
(*                 (model: whether given; level 0: not given);             *)
(*   models        the number of entries of TEST_MODELS;                   *)
(*   pc            "main", "suite" (between run_challenge calls), "run"    *)
(*                 (inside one) or "exit";                                 *)
(*   todo          run_challenge calls still to make;                      *)
(*   passes        whether the calls are given max_retries;                *)
(*   budget, made, passed   the max_retries parameter of the call in       *)
(*                 progress, its attempts so far, whether one scored 70;   *)
(*   runs, most    calls finished, the most attempts any of them made.     *)
(***************************************************************************)
MaxCliRetries == 4
\* max_retries: int = 3 in the signature of run_challenge
DEFAULT_MAX_RETRIES == 3
\* for level in range(1, 6)
SUITE_LEVELS == 5

Scripts == {"run_challenge", "simple_verbose_runner"}
ModelCounts == {0, 1, 2}
CliLevels == {0, 1}
AttemptOutcomes == {"pass", "fail", "error"}

NoCli == [script |-> "none", model |-> FALSE, level |-> 0, all_models |-> FALSE,
          all_levels |-> FALSE, max_retries |-> 0, models |-> 0, pc |-> "idle",
          todo |-> 0, passes |-> FALSE, budget |-> 0, made |-> 0, passed |-> FALSE,
          runs |-> 0, most |-> 0]

\* The command lines that click accepts: simple_verbose_runner.py requires
\* --model and has no --all-models.
CommandLines ==
    {c \in [script : Scripts, model : BOOLEAN, level : CliLevels, all_models : BOOLEAN,
            all_levels : BOOLEAN, max_retries : 0..MaxCliRetries, models : ModelCounts,
            pc : {"main"}, todo : {0}, passes : {FALSE}, budget : {0}, made : {0},
            passed : {FALSE}, runs : {0}, most : {0}] :
       c.script = "simple_verbose_runner" => c.model /\ ~c.all_models /\ c.models = 0}

CliFrame ==
    /\ UNCHANGED evalVars
    /\ UNCHANGED runVars
    /\ UNCHANGED storeVars
    /\ UNCHANGED <<st, ft, fs, pair>>

\* main of run_challenge.py: if all_models / elif model and all_levels /
\* elif model and level / else usage.  No branch hands max_retries on.
MainOfRunChallenge ==
    /\ cli.pc = "main"
    /\ cli.script = "run_challenge"
    /\ cli' = IF cli.all_models
              THEN [cli EXCEPT !.todo = cli.models * SUITE_LEVELS, !.pc = "suite"]
              ELSE IF cli.model /\ cli.all_levels
              THEN [cli EXCEPT !.todo = SUITE_LEVELS, !.pc = "suite"]
              ELSE IF cli.model /\ cli.level # 0
              THEN [cli EXCEPT !.todo = 1, !.pc = "suite"]
              ELSE [cli EXCEPT !.pc = "exit"]
    /\ CliFrame

\* main of simple_verbose_runner.py: if all_levels or not level:
\* run_all_challenges(model) else: run_challenge(model, level, max_retries)
MainOfSimpleRunner ==
    /\ cli.pc = "main"
    /\ cli.script = "simple_verbose_runner"
    /\ cli' = IF cli.all_levels \/ cli.level = 0
              THEN [cli EXCEPT !.todo = SUITE_LEVELS, !.pc = "suite"]
              ELSE [cli EXCEPT !.todo = 1, !.passes = TRUE, !.pc = "suite"]
    /\ CliFrame

\* The next run_challenge call of the command, or its end.
CallRunChallenge ==
    /\ cli.pc = "suite"
    /\ cli' = IF cli.todo > 0
              THEN [cli EXCEPT !.todo = @ - 1,
                               !.budget = IF cli.passes THEN cli.max_retries
                                                        ELSE DEFAULT_MAX_RETRIES,
                               !.made = 0, !.passed = FALSE, !.pc = "run"]
              ELSE [cli EXCEPT !.pc = "exit"]
    /\ CliFrame

\* One iteration of `for attempt in range(max_retries)`: a score of 70 or
\* more (break), a lower score, or an error.
AttemptOfCall ==
    /\ cli.pc = "run"
    /\ ~cli.passed
    /\ InRange(cli.made, cli.budget)
    /\ \E outcome \in AttemptOutcomes :
         cli' = [cli EXCEPT !.made = @ + 1, !.passed = outcome = "pass"]
    /\ CliFrame

\* The loop is left, run_challenge returns.
ReturnOfCall ==
    /\ cli.pc = "run"
    /\ cli.passed \/ ~InRange(cli.made, cli.budget)
    /\ cli' = [cli EXCEPT !.runs = @ + 1,
                          !.most = IF cli.made > @ THEN cli.made ELSE @,
                          !.pc = "suite"]
    /\ CliFrame

(***************************************************************************)
(* The two controllers side by side: ChallengeRunner.run_challenge and     *)
(* SimpleVerboseRunner.run_challenge, each with its own locals, given the  *)
(* same budget and meeting the same outcome in attempt k (pair.outs[k]):   *)
(* an error, or the score that evaluate returns.  Fields of a runner:      *)
(*   pc, attempt, best_score, best_handler, attempts   as in the run;      *)
(*   final    the attempt whose code the runner wrote to handler.py (0:    *)
(*            not written);                                                *)
(*   saved    the records the runner handed to _save_result;               *)
(*   result   the dict it returned.                                        *)
(***************************************************************************)
PairScores == {0, 40, 70}
PairOutcomes == {[kind |-> "error", score |-> 0]}
                \cup {[kind |-> "score", score |-> n] : n \in PairScores}

NoResult == [level |-> 0]
NoRunner == [pc |-> "idle", attempt |-> 0, best_score |-> 0, best_handler |-> 0,
             attempts |-> <<>>, final |-> 0, saved |-> 0, result |-> NoResult]
\* best_score = 0; best_handler = None; attempts = []
FreshRunner == [NoRunner EXCEPT !.pc = "loop"]
NoPair == [budget |-> 0, outs |-> <<>>, rich |-> NoRunner, simple |-> NoRunner]

PairFrame ==
    /\ UNCHANGED evalVars
    /\ UNCHANGED runVars
    /\ UNCHANGED storeVars
    /\ UNCHANGED <<st, ft, fs, cli>>

\* A record of SimpleVerboseRunner without its 'path'.
SimpleScoredRecord_NoPath(k, score) == [attempt |-> k, score |-> score, time |-> "elapsed"]

\* attempts.append({'attempt': attempt + 1, 'score': score, 'time': attempt_time,
\*                  'path': str(handler_path)})
SimpleScoredRecord(k, score) ==
    [attempt |-> k, score |-> score, time |-> "elapsed", path |-> k]

\* ChallengeRunner: one pass through `for attempt in range(max_retries)`,
\* or the end of the loop.
RichIterate ==
    /\ pair.rich.pc = "loop"
    /\ LET r == pair.rich
           k == r.attempt + 1
       IN  IF ~InRange(r.attempt, pair.budget)
           THEN pair' = [pair EXCEPT !.rich.pc = "finalize"]
           ELSE IF pair.outs[k].kind = "error"
           THEN pair' = [pair EXCEPT
                           !.rich.attempts = Append(@, ErrorRecord(k, "evaluate")),
                           !.rich.attempt = k]
           ELSE LET score == pair.outs[k].score
                IN  pair' = [pair EXCEPT
                               !.rich.attempts = Append(@, ScoredRecord(k, score)),
                               !.rich.best_score = IF score > @ THEN score ELSE @,
                               !.rich.best_handler = IF score > r.best_score THEN k ELSE @,
                               !.rich.pc = IF StopRetrying(score) THEN "finalize" ELSE @,
                               !.rich.attempt = IF StopRetrying(score) THEN @ ELSE k]
    /\ PairFrame

\* ChallengeRunner: if best_handler: copy it to handler.py
RichFinalize ==
    /\ pair.rich.pc = "finalize"
    /\ pair' = [pair EXCEPT !.rich.final = IF pair.rich.best_handler # 0
                                           THEN pair.rich.best_handler ELSE @,
                            !.rich.pc = "save"]
    /\ PairFrame

\* ChallengeRunner: result = {...}; self._save_result(result); return result
RichReturn ==
    /\ pair.rich.pc = "save"
    /\ LET r == pair.rich
       IN  pair' = [pair EXCEPT
                      !.rich.result = [level |-> level,
                                       best_score |-> r.best_score,
                                       passed |-> r.best_score >= PASS_THRESHOLD,
                                       attempts |-> r.attempts,
                                       final_handler |-> r.best_handler],
                      !.rich.saved = @ + 1,
                      !.rich.pc = "done"]
    /\ PairFrame

\* SimpleVerboseRunner: one pass through `for attempt in range(max_retries)`,
\* or the end of the loop.
SimpleIterate ==
    /\ pair.simple.pc = "loop"
    /\ LET r == pair.simple
           k == r.attempt + 1
       IN  IF ~InRange(r.attempt, pair.budget)
           THEN pair' = [pair EXCEPT !.simple.pc = "finalize"]
           ELSE IF pair.outs[k].kind = "error"
           THEN pair' = [pair EXCEPT
                           !.simple.attempts = Append(@, ErrorRecord(k, "evaluate")),
                           !.simple.attempt = k]
           ELSE LET score == pair.outs[k].score
                IN  pair' = [pair EXCEPT
                               !.simple.attempts = Append(@, SimpleScoredRecord(k, score)),
                               !.simple.best_score = IF score > @ THEN score ELSE @,
                               !.simple.best_handler = IF score > r.best_score THEN k ELSE @,
                               !.simple.pc = IF StopRetrying(score) THEN "finalize" ELSE @,
                               !.simple.attempt = IF StopRetrying(score) THEN @ ELSE k]
    /\ PairFrame

\* SimpleVerboseRunner: if best_handler: copy it to handler.py
SimpleFinalize ==
    /\ pair.simple.pc = "finalize"
    /\ pair' = [pair EXCEPT !.simple.final = IF pair.simple.best_handler # 0
                                             THEN pair.simple.best_handler ELSE @,
                            !.simple.pc = "save"]
    /\ PairFrame

\* SimpleVerboseRunner: result = {... 'total_time': total_time};
\* self._save_result(result); return result
SimpleReturn ==
    /\ pair.simple.pc = "save"
    /\ LET r == pair.simple
       IN  pair' = [pair EXCEPT
                      !.simple.result = [level |-> level,
                                         best_score |-> r.best_score,
                                         passed |-> r.best_score >= PASS_THRESHOLD,
                                         attempts |-> r.attempts,
                                         total_time |-> "elapsed"],
                      !.simple.saved = @ + 1,
                      !.simple.pc = "done"]
    /\ PairFrame

(***************************************************************************)
(* Specifications.                                                         *)
(***************************************************************************)
InitCommon ==
    /\ epc = "idle"
    /\ scores = ZeroScores
    /\ retval = 0
    /\ obs = NoObs
    /\ live = 0
    /\ evals = 0
    /\ attempt = 0
    /\ best_score = 0
    /\ best_handler = 0
    /\ attempts = <<>>
    /\ genCalls = 0
    /\ final_handler = 0
    /\ results = <<>>
    /\ disk = StaleDisk
    /\ wpc = [w \in Writers |-> "idle"]
    /\ wlocal = [w \in Writers |-> <<>>]
    /\ wrec = [w \in Writers |-> PyNone]
    /\ saves = 0

\* One run_challenge call, for every budget up to MaxRetries.
Init ==
    /\ InitCommon
    /\ st = NoStruct
    /\ ft = NoFunc
    /\ fs = NoFs
    /\ cli = NoCli
    /\ pair = NoPair
    /\ file = MissingFile
    /\ expected = <<>>
    /\ level \in RunLevels
    /\ pc = "loop"
    /\ max_retries \in 0..MaxRetries

Next ==
    \/ LoopHead
    \/ CreatePrompt
    \/ Generate
    \/ Persist
    \/ Evaluate
    \/ CheckSyntax
    \/ CheckStructure
    \/ CheckLoads
    \/ TestFunctionality
    \/ Decide
    \/ EvaluateRaised
    \/ Finalize
    \/ SaveResult
    \/ ChildExits

Spec == Init /\ [][Next]_vars

\* The steps of run_challenge and of the evaluate call it awaits.  Every
\* awaited call (generation, a child-process wait) returns or raises, so a
\* step that can be taken is taken.
RunStep ==
    \/ LoopHead
    \/ CreatePrompt
    \/ Generate
    \/ Persist
    \/ Evaluate
    \/ CheckSyntax
    \/ CheckStructure
    \/ CheckLoads
    \/ TestFunctionality
    \/ Decide
    \/ EvaluateRaised
    \/ Finalize
    \/ SaveResult

SpecLive == Init /\ [][Next]_vars /\ WF_vars(RunStep)

\* The evaluator alone, called MaxEvals times.
InitEval ==
    /\ InitCommon
    /\ st = NoStruct
    /\ ft = NoFunc
    /\ fs = NoFs
    /\ cli = NoCli
    /\ pair = NoPair
    /\ file = MissingFile
    /\ expected = <<>>
    /\ level \in Levels
    /\ pc = "driver"
    /\ max_retries = 0

NextEval ==
    \/ CallEvaluate
    \/ CheckSyntax
    \/ CheckStructure
    \/ CheckLoads
    \/ TestFunctionality
    \/ ChildExits

SpecEval == InitEval /\ [][NextEval]_vars

\* The Result Store alone: results.json is missing or holds the record of an
\* earlier run, and the writers call _save_result MaxSaves times in all.
InitStore ==
    /\ InitCommon
    /\ st = NoStruct
    /\ ft = NoFunc
    /\ fs = NoFs
    /\ cli = NoCli
    /\ pair = NoPair
    /\ level = 1
    /\ pc = "store"
    /\ max_retries = 0
    /\ \E seed \in {<<>>, <<PyResult(RunFailed)>>} :
         /\ file = IF seed = <<>> THEN MissingFile ELSE WrittenFile(seed)
         /\ expected = seed

StoreStep ==
    \E w \in Writers :
       \/ SaveExists(w)
       \/ SaveLoad(w)
       \/ SaveOpen(w)
       \/ SaveDump(w)
       \/ SaveInterrupted(w)

\* Writers that call _save_result whenever they like.
NextStore ==
    \/ \E w \in Writers, r \in StoreRecords : SaveCall(w, r)
    \/ StoreStep

SpecStore == InitStore /\ [][NextStore]_vars

\* One _save_result call at a time (the single logical writer).
NextStoreSeq ==
    \/ \E w \in Writers, r \in StoreRecords : Exclusive(w) /\ SaveCall(w, r)
    \/ StoreStep

SpecStoreSeq == InitStore /\ [][NextStoreSeq]_vars

\* _check_structure alone, called once on a file with any of the trees,
\* raising at any of the fail points.
InitStruct ==
    /\ InitCommon
    /\ ft = NoFunc
    /\ fs = NoFs
    /\ cli = NoCli
    /\ pair = NoPair
    /\ file = MissingFile
    /\ expected = <<>>
    /\ level = 1
    /\ pc = "unit"
    /\ max_retries = 0
    /\ st \in [pc : {"open"}, tree : Trees, fail : FailPoints, raised : {FALSE}, score : {0}]

NextStruct ==
    \/ StructOpen
    \/ ProbeImports
    \/ ProbeClasses
    \/ ProbeMethods
    \/ StructExcept
    \/ StructReturn

SpecStruct == InitStruct /\ [][NextStruct]_vars

\* _test_functionality alone, called MaxFuncRuns times.
InitFunc ==
    /\ InitCommon
    /\ st = NoStruct
    /\ ft = NoFunc
    /\ fs = NoFs
    /\ cli = NoCli
    /\ pair = NoPair
    /\ file = MissingFile
    /\ expected = <<>>
    /\ level = 1
    /\ pc = "func_unit"
    /\ max_retries = 0

NextFunc ==
    \/ FuncCall
    \/ FuncTmpFile
    \/ FuncSpawn
    \/ FuncWait
    \/ FuncParse
    \/ FuncExcept
    \/ FuncFinally

SpecFunc == InitFunc /\ [][NextFunc]_vars

\* Runs of several models and levels writing below the same output_dir.
InitPaths ==
    /\ InitCommon
    /\ st = NoStruct
    /\ ft = NoFunc
    /\ cli = NoCli
    /\ pair = NoPair
    /\ file = MissingFile
    /\ expected = <<>>
    /\ level = 1
    /\ pc = "paths"
    /\ max_retries = 0
    /\ fs = NoFs

NextPaths ==
    \/ PathPersist
    \/ PathFinalize

SpecPaths == InitPaths /\ [][NextPaths]_vars

\* One invocation of either script, with any command line.
InitMain ==
    /\ InitCommon
    /\ st = NoStruct
    /\ ft = NoFunc
    /\ fs = NoFs
    /\ pair = NoPair
    /\ file = MissingFile
    /\ expected = <<>>
    /\ level = 1
    /\ pc = "main"
    /\ max_retries = 0
    /\ cli \in CommandLines

NextMain ==
    \/ MainOfRunChallenge
    \/ MainOfSimpleRunner
    \/ CallRunChallenge
    \/ AttemptOfCall
    \/ ReturnOfCall

SpecMain == InitMain /\ [][NextMain]_vars

\* Both controllers called with the same max_retries, for every budget up
\* to MaxRetries and every outcome of each attempt.
InitPair ==
    /\ InitCommon
    /\ st = NoStruct
    /\ ft = NoFunc
    /\ fs = NoFs
    /\ cli = NoCli
    /\ file = MissingFile
    /\ expected = <<>>
    /\ level = 1
    /\ pc = "pair"
    /\ max_retries = 0
    /\ \E b \in 0..MaxRetries, outs \in [1..MaxRetries -> PairOutcomes] :
         pair = [budget |-> b, outs |-> outs, rich |-> FreshRunner, simple |-> FreshRunner]

NextPair ==
    \/ RichIterate
    \/ RichFinalize
    \/ RichReturn
    \/ SimpleIterate
    \/ SimpleFinalize
    \/ SimpleReturn

SpecPair == InitPair /\ [][NextPair]_vars


(***************************************************************************)
(* Properties of the retry loop.                                           *)
(***************************************************************************)
Finished == pc \in {"finalize", "save", "done"}

RECURSIVE MaxScore(_)
MaxScore(atts) ==
    IF Len(atts) = 0 THEN 0
    ELSE IF Len(atts) = 1 THEN atts[1].score
    ELSE LET m == MaxScore(Tail(atts))
         IN  IF atts[1].score >= m THEN atts[1].score ELSE m

NoPass(atts) == \A k \in 1..Len(atts) : atts[k].score < PASS_THRESHOLD

\* C1: the loop stops at the first attempt whose score is >= 70: that
\* attempt is the last record, its index is the number of records, nothing
\* is generated after it, and the run's record has its score as best_score
\* and passed = true.  An attempt below 70 that leaves budget does not stop
\* the loop.
C1_EarlyStop ==
    /\ \A k \in 1..Len(attempts) :
         attempts[k].score >= PASS_THRESHOLD =>
           /\ k = Len(attempts)
           /\ attempts[k].attempt = k
           /\ Finished
           /\ best_score = attempts[k].score
           /\ best_handler = k
    /\ (Finished /\ NoPass(attempts)) => Len(attempts) >= max_retries
    /\ pc = "done" =>
         LET r == results[Len(results)]
             n == Len(r.attempts)
         IN  (n > 0 /\ r.attempts[n].score >= PASS_THRESHOLD) =>
               /\ r.passed
               /\ r.best_score = r.attempts[n].score
               /\ r.attempts = attempts

\* A run with budget left over that stopped on a score of exactly 70.
C1_Witness ==
    /\ pc = "done"
    /\ max_retries = 2
    /\ Len(attempts) = 1
    /\ attempts[1].score = 70
    /\ genCalls = 1
    /\ results[1].passed

\* C2: a run in which no attempt reaches 70 makes exactly max_retries
\* attempts, and its record has best_score equal to the maximum of the
\* attempt scores and passed = false.
C2_Exhausted ==
    (pc = "done" /\ NoPass(attempts)) =>
      LET r == results[Len(results)]
      IN  /\ Len(r.attempts) = max_retries
          /\ r.best_score = MaxScore(r.attempts)
          /\ r.passed = FALSE

\* C3: the run never calls the generation backend more than max_retries
\* times and never records more than max_retries attempts.
C3_BudgetIsHardCap ==
    /\ genCalls <= max_retries
    /\ Len(attempts) <= max_retries
    /\ attempt <= max_retries

\* The whole budget spent on attempts that all scored 0.
C3_Witness ==
    /\ pc = "done"
    /\ max_retries = 2
    /\ Len(attempts) = 2
    /\ genCalls = 2
    /\ \A k \in 1..2 : attempts[k].score = 0

(***************************************************************************)
(* Properties of evaluate.                                                 *)
(***************************************************************************)
\* C4: every value returned by evaluate is between 0 and 100.
C4_TotalInRange ==
    epc = "returned" => (0 <= retval /\ retval <= 100)

\* C5: the functional score is 50 when the SCORE line carries n > 50, n
\* when 0 <= n <= 50, and is never below 0.
C5_FunctionalClamped ==
    /\ scores.functionality >= 0
    /\ (epc = "returned" /\ obs.funcEnv = "ok" /\ obs.funcHasN) =>
         /\ obs.funcN > FUNC_CAP => scores.functionality = FUNC_CAP
         /\ (0 <= obs.funcN /\ obs.funcN <= FUNC_CAP) => scores.functionality = obs.funcN

C7_RaisingHandlerGetsNoBonus ==
    (epc = "returned" /\ obs.loadEnv = "ok" /\ obs.loadInst = "raises") =>
      /\ retval = SYNTAX_POINTS + scores.structure
      /\ scores.loads = 0
      /\ obs.funcStarts = 0

\* C8: when _check_loads or _test_functionality has returned because its
\* timeout expired, no child of the evaluator is still running.
C8_TimedOutChildReclaimed ==
    (epc = "returned" /\ (obs.loadEnv = "timeout" \/ obs.funcEnv = "timeout")) =>
      live = 0

\* C9: a loader timeout makes evaluate return 10 + structure_score with the
\* functional phase skipped, a functional timeout makes it return
\* 10 + structure_score + 20 + 0, and each child is launched at most once
\* per evaluate call.
C9_TimeoutZeroesPhaseOnly ==
    /\ obs.loadStarts <= 1
    /\ obs.funcStarts <= 1
    /\ (epc = "returned" /\ obs.loadEnv = "timeout") =>
         /\ retval = 10 + scores.structure
         /\ obs.funcStarts = 0
    /\ (epc = "returned" /\ obs.funcEnv = "timeout") =>
         /\ retval = 10 + scores.structure + 20 + 0
         /\ obs.loadStarts = 1
         /\ obs.funcStarts = 1

\* A functional timeout on a candidate of full structure.
C9_Witness ==
    /\ pc = "driver"
    /\ epc = "returned"
    /\ obs.funcEnv = "timeout"
    /\ scores.structure = 20
    /\ retval = 50

(***************************************************************************)
(* Errors inside an attempt.                                               *)
(***************************************************************************)
ErrorMessages == {"prompt", "generate", "persist", "evaluate"}

ErrorStep ==
    \/ Len(attempts') = Len(attempts) + 1 /\ "error" \in DOMAIN attempts'[Len(attempts')]
    \/ epc = "raised" /\ epc' # "raised"
    \/ pc \in {"prompt", "generate", "persist"} /\ pc' \notin {pc, "generate", "persist", "evaluate"}

ErrorCaught ==
    /\ \E msg \in ErrorMessages :
         attempts' = Append(attempts, [attempt |-> attempt + 1, score |-> 0,
                                       error |-> msg, time |-> "elapsed"])
    /\ best_score' = best_score
    /\ best_handler' = best_handler
    /\ attempt' = attempt + 1
    /\ pc' = "loop"

\* C10: an error raised during attempt N appends exactly one record
\* {attempt: N, score: 0, error: message}, leaves best_score and the best
\* candidate unchanged and returns to the head of the loop, which starts
\* attempt N+1 exactly when budget remains.
C10_ErrorIsCaught ==
    [][/\ ErrorStep => ErrorCaught
       /\ (pc = "loop" /\ pc' # "loop") =>
            IF attempt < max_retries THEN pc' = "prompt" ELSE pc' = "finalize"]_vars

\* An error in the second attempt kept the first attempt as the best.
C10_Witness ==
    /\ pc = "done"
    /\ Len(attempts) = 2
    /\ "path" \in DOMAIN attempts[1]
    /\ attempts[1].score > 0
    /\ "error" \in DOMAIN attempts[2]
    /\ best_score = attempts[1].score
    /\ best_handler = 1
    /\ final_handler = 1


(***************************************************************************)
(* More properties of evaluate.                                            *)
(***************************************************************************)
\* C11: evaluate never raises: every failure a phase meets, not only a
\* SyntaxError, becomes a number that evaluate returns.
C11_EvaluateNeverRaises ==
    epc # "raised"

\* What a reader of results.json gets: json.load of the text in the file.
Reload == FromJson(file.data).v

AllErrored(atts) == \A k \in 1..Len(atts) : "error" \in DOMAIN atts[k]
HasCandidate(atts) == \E k \in 1..Len(atts) : "path" \in DOMAIN atts[k]

\* C12: a run whose attempts all fail ends normally. Without a pass it has
\* made max_retries attempts and its record says passed = false; when every
\* attempt raised (every generation call included) the record holds
\* max_retries attempt records, best_score 0, passed = false and no final
\* handler, and it is the record appended to results.json.
C12_ExhaustionIsData ==
    pc = "done" =>
      /\ Len(results) = 1
      /\ Reload = <<PyResult(results[1])>>
      /\ NoPass(attempts) =>
           /\ Len(results[1].attempts) = max_retries
           /\ results[1].passed = FALSE
      /\ AllErrored(attempts) =>
           /\ Len(results[1].attempts) = max_retries
           /\ results[1].best_score = 0
           /\ results[1].passed = FALSE
           /\ results[1].final_handler = 0
           /\ final_handler = 0

\* Both generation calls of a run with max_retries = 2 raised, and the run
\* has returned.
C12_Witness ==
    /\ pc = "done"
    /\ max_retries = 2
    /\ Len(attempts) = 2
    /\ \A k \in 1..2 : "error" \in DOMAIN attempts[k] /\ attempts[k].error = "generate"
    /\ Len(Reload) = 1

\* The earliest attempt with a candidate whose score is the maximum (0 if none).
RECURSIVE EarliestBest(_, _)
EarliestBest(atts, k) ==
    IF k > Len(atts) THEN 0
    ELSE IF "path" \in DOMAIN atts[k] /\ atts[k].score = MaxScore(atts) THEN k
    ELSE EarliestBest(atts, k + 1)

\* C13: at the end of a run best_score is the maximum score of its attempts,
\* the best candidate is the earliest attempt that achieved it, and
\* passed = (best_score >= 70).
C13_BestIsEarliestMax ==
    (pc = "done" /\ Len(attempts) > 0) =>
      /\ results[1].best_score = MaxScore(attempts)
      /\ best_handler = EarliestBest(attempts, 1)
      /\ results[1].passed = (results[1].best_score >= PASS_THRESHOLD)

\* C14: Finalize copies the best candidate to the final path exactly in the
\* runs in which some attempt persisted a candidate.
C14_FinalizeCopies ==
    pc \in {"save", "done"} => (final_handler # 0 <=> HasCandidate(attempts))

\* C15: with one _save_result call at a time, whenever results.json holds a
\* text, reloading it gives the list that was there at the start followed by
\* the record of every completed call, in call order and equal field for
\* field; a missing file counts as the empty list.
C15_AppendRoundTrip ==
    /\ file.state = "ok" => Reload = expected
    /\ file.state = "missing" => expected = <<>>

\* Two calls have completed, one after the other, on a store that held one record.
C15_Witness ==
    /\ pc = "store"
    /\ file.state = "ok"
    /\ wpc[1] = "done" /\ wpc[2] = "done"
    /\ Len(Reload) = 3
    /\ Reload[1] = PyResult(RunFailed)
    /\ Reload[3] = PyResult(RunPassed)
    /\ Reload[3] \in {wrec[1], wrec[2]}

\* The list a writer loaded: its local list without the record it appended.
LoadedBy(w) == SubSeq(wlocal[w], 1, Len(wlocal[w]) - 1)

\* C16: _save_result takes no lock. When two writers have loaded the same
\* list and both have rewritten the file, the file holds the list of one of
\* them: the loaded list and one new record, not both.
C16_LostUpdate ==
    (wpc[1] = "done" /\ wpc[2] = "done" /\ LoadedBy(1) = LoadedBy(2)) =>
      /\ file.state = "ok"
      /\ Reload \in {wlocal[1], wlocal[2]}
      /\ Len(Reload) = Len(LoadedBy(1)) + 1

\* load, load, write, write: both calls completed, and the record of
\* writer 1 is not in the file.
C16_Witness ==
    /\ pc = "store"
    /\ wpc[1] = "done" /\ wpc[2] = "done"
    /\ LoadedBy(1) = LoadedBy(2)
    /\ wrec[1] = PyResult(RunPassed)
    /\ wrec[2] = PyResult(RunFailed)
    /\ Len(expected) = 2
    /\ Reload = <<PyResult(RunFailed)>>

\* C17: a record that has been written is still in results.json whenever no
\* _save_result call is in progress, also after a call that failed or was
\* interrupted.
C17_Durable ==
    (\A w \in Writers : Resting(w)) =>
      /\ file.state # "partial"
      /\ \A i \in 1..Len(expected) :
           \E j \in 1..Len(LoadedList(file)) : LoadedList(file)[j] = expected[i]

\* C18: a run appends exactly one record to results.json, and only after
\* the attempt loop and Finalize: none before the save step, one after it.
C18_SavedOnceAtEnd ==
    /\ pc # "done" => results = <<>> /\ file = MissingFile
    /\ pc = "done" => Len(results) = 1 /\ file.state = "ok" /\ Len(Reload) = 1

\* A run of two attempts has finished and the store holds its record.
C18_Witness ==
    /\ pc = "done"
    /\ Len(attempts) = 2
    /\ "path" \in DOMAIN attempts[2]
    /\ Reload = <<PyResult(results[1])>>
    /\ Len(Reload[1].v[7][2].v) = 2

\* C19: _check_loads returns True exactly when the child finished within
\* the timeout and wrote the token SUCCESS to its standard output, whatever
\* its exit status; a timeout or a failure to launch gives False.
C19_LoaderResult ==
    obs.loadEnv # "none" =>
      /\ (scores.loads = LOADS_POINTS) <=> (obs.loadEnv = "ok" /\ obs.loadToken)
      /\ scores.loads \in {0, LOADS_POINTS}
      /\ (scores.loads = 0) => (epc = "returned" /\ obs.funcStarts = 0)

\* The loader accepted a child that wrote the token and ended with a
\* non-zero exit status.
C19_Witness ==
    /\ pc = "driver"
    /\ epc = "functionality"
    /\ obs.loadEnv = "ok"
    /\ obs.loadToken
    /\ obs.loadExit = 1
    /\ scores.loads = 20

\* C20: when the syntax is valid and the loader succeeds, evaluate returns
\* exactly 10 + structure_score + 20 + the value _test_functionality returned.
C20_FullScore ==
    (epc = "returned" /\ obs.parse = "ok" /\ scores.loads = LOADS_POINTS) =>
      /\ obs.funcEnv # "none"
      /\ retval = 10 + scores.structure + 20 + obs.funcRet

\* Every phase at its ceiling.
C20_Witness ==
    /\ pc = "driver"
    /\ epc = "returned"
    /\ scores.loads = 20
    /\ scores.structure = 20
    /\ obs.funcRet = 50
    /\ retval = 100

(***************************************************************************)
(* Order of the phases and of the controller steps.                        *)
(***************************************************************************)
\* The moves of evaluate from one phase to the next, with its entry
\* (from "idle", or from the end of an earlier call) and its exit.
EpcSteps ==
    {<<"idle", "syntax">>, <<"returned", "syntax">>, <<"raised", "syntax">>,
     <<"syntax", "structure">>, <<"syntax", "returned">>, <<"syntax", "raised">>,
     <<"structure", "loads">>,
     <<"loads", "functionality">>, <<"loads", "returned">>,
     <<"functionality", "returned">>,
     <<"returned", "idle">>, <<"raised", "idle">>}

PhaseGate ==
    /\ obs.structRuns <= 1 /\ obs.loadStarts <= 1 /\ obs.funcStarts <= 1
    /\ epc \in {"structure", "loads", "functionality"} => obs.parse = "ok"
    /\ obs.structRuns = 1 => obs.parse = "ok"
    /\ (epc \in {"loads", "functionality"} \/ obs.loadEnv # "none") => obs.structRuns = 1
    /\ (epc = "functionality" \/ obs.funcEnv # "none") =>
         /\ obs.loadEnv = "ok"
         /\ obs.loadToken
         /\ scores.loads = LOADS_POINTS

\* C25: inside evaluate the phases run in the order syntax, structure,
\* loader, functional, each at most once; structure and loader only after a
\* valid syntax, the functional child only after the loader returned True.
C25_PhaseGating ==
    /\ []PhaseGate
    /\ [][epc' # epc => <<epc, epc'>> \in EpcSteps]_vars

\* The second evaluate call of the driver has run all four phases.
C25_Witness ==
    /\ pc = "driver"
    /\ evals = 2
    /\ epc = "returned"
    /\ obs.parse = "ok"
    /\ obs.structRuns = 1
    /\ obs.loadStarts = 1
    /\ obs.funcStarts = 1

\* The moves of run_challenge from one step to the next; a step of the
\* attempt that raises goes back to the loop head.
PcSteps ==
    {<<"loop", "prompt">>, <<"loop", "finalize">>,
     <<"prompt", "generate">>, <<"prompt", "loop">>,
     <<"generate", "persist">>, <<"generate", "loop">>,
     <<"persist", "evaluate">>, <<"persist", "loop">>,
     <<"evaluate", "evaluating">>,
     <<"evaluating", "loop">>, <<"evaluating", "finalize">>,
     <<"finalize", "save">>,
     <<"save", "done">>}

InFlight(p) == p \in {"prompt", "generate", "persist", "evaluate", "evaluating"}

ControllerStep ==
    /\ pc' # pc => <<pc, pc'>> \in PcSteps
    /\ InFlight(pc') => Len(attempts') = attempt'
    /\ attempts' # attempts =>
         /\ InFlight(pc)
         /\ Len(attempts') = Len(attempts) + 1
         /\ attempts'[Len(attempts')].attempt = attempt + 1
    /\ genCalls' # genCalls => (pc = "generate" /\ genCalls' = genCalls + 1)
    /\ epc' # epc => pc \in {"evaluate", "evaluating"}
    /\ final_handler' # final_handler => pc = "finalize"
    /\ results' # results => pc = "save"
    /\ file' # file => pc = "save"
    /\ pc = "done" => UNCHANGED <<runVars, storeVars, epc, scores, retval>>

\* C26: each attempt goes through Generate, Persist, Evaluate, Decide in
\* that order, one attempt at a time; Finalize comes after the last Decide
\* and before the append to results.json, and nothing happens after Done.
C26_StepOrder == [][ControllerStep]_vars

\* Two attempts were generated, persisted, evaluated and decided one after
\* the other, the second one passed, and the run is done.
C26_Witness ==
    /\ pc = "done"
    /\ genCalls = 2
    /\ Len(attempts) = 2
    /\ \A k \in 1..2 : "path" \in DOMAIN attempts[k]
    /\ attempts[2].score >= PASS_THRESHOLD
    /\ final_handler = 2

(***************************************************************************)
(* Properties of _check_structure.                                         *)
(***************************************************************************)
ImportProbe(tree) == IF (SelectSeq(tree.imports, IsBaseImport) # <<>>) THEN IMPORT_POINTS ELSE 0
ClassProbe(tree) == IF handler_classes(tree) # <<>> THEN CLASS_POINTS ELSE 0
ProcessProbe(tree) ==
    IF handler_classes(tree) # <<>> /\ HasProcess(handler_classes(tree)[1])
    THEN PROCESS_POINTS ELSE 0

\* The points of the probes that completed before the try block raised.
Established(tree, fail) ==
    CASE fail \in {"open", "imports"} -> 0
      [] fail = "classes" -> ImportProbe(tree)
      [] fail = "methods" /\ handler_classes(tree) # <<>> -> ImportProbe(tree) + ClassProbe(tree)
      [] OTHER -> ImportProbe(tree) + ClassProbe(tree) + ProcessProbe(tree)

\* C29: an exception partway through _check_structure does not leave the
\* method: it returns the points of the probes that had completed, and the
\* remaining probes add nothing.
C29_StructureFailsOpen ==
    /\ st.pc \notin {"raised"}
    /\ st.pc \in {"return", "returned"} => st.score = Established(st.tree, st.fail)
    /\ (st.raised /\ st.pc \notin {"except"}) => st.pc \in {"return", "returned"}

\* The method probe raised after the import and the class probes had given
\* their 5 points each, and the method returned 10.
C29_Witness ==
    /\ st.pc = "returned"
    /\ st.raised
    /\ st.fail = "methods"
    /\ st.tree.imports = <<FromBase>>
    /\ st.tree.classes = <<HotSync>>
    /\ st.score = 10

\* C30: without an exception the structure score is 5 for the import probe
\* plus 5 for a class with base HotHandler plus 10 for a def or async def
\* named process in the first such class: a value in {0, 5, 10, 15, 20},
\* with no 10 when there is no such class, and a process method of a later
\* handler class does not count.
C30_StructureScore ==
    (st.pc = "returned" /\ ~st.raised) =>
      /\ st.score = ImportProbe(st.tree) + ClassProbe(st.tree) + ProcessProbe(st.tree)
      /\ st.score = _check_structure(Analyze(st.tree))
      /\ st.score \in {0, 5, 10, 15, 20}
      /\ handler_classes(st.tree) = <<>> => st.score \in {0, 5}
      /\ (handler_classes(st.tree) # <<>> /\ ~HasProcess(handler_classes(st.tree)[1])) =>
           st.score \in {5, 10}

\* Two handler classes, only the second has process: 5 + 5 and no 10.
C30_Witness ==
    /\ st.pc = "returned"
    /\ ~st.raised
    /\ st.tree.imports = <<FromSub>>
    /\ st.tree.classes = <<HotBare, HotSync>>
    /\ st.score = 10

(***************************************************************************)
(* Properties of _test_functionality.                                      *)
(***************************************************************************)
\* The script's own result in the call in progress.
OwnResult == test_handler(ft.level, ft.beh)
Completed == ft.pc = "returned" /\ ft.env = "ok"

\* C21: two functional runs at the same level in which the script computes
\* the same score return the same functional score, whatever else the
\* candidate wrote to standard output.
C21_OnlyOwnScoreLine ==
    (/\ Completed /\ ~OwnResult.crashed
     /\ ft.prev.has /\ ft.prev.normal /\ ~ft.prev.crashed
     /\ ft.prev.level = ft.level
     /\ ft.prev.score = OwnResult.score) => ft.ret = ft.prev.ret

\* C22: at a level other than 1 and 2 the functional phase returns 0.
C22_UnlistedLevelScoresZero ==
    (ft.pc = "returned" /\ ft.level \notin {1, 2}) => ft.ret = 0

\* C23: when _test_functionality has returned or raised, the temporary
\* script file of the call does not exist.
C23_TempFileRemoved ==
    ft.pc \in {"returned", "raised"} => ft.tmp = "absent"

\* The first line of the child's output that holds 'SCORE:'.
FirstScoreLine(output) == SelectSeq(Split(output, "\n"), HasScoreTag)[1]
\* The text of a line after its first ':'.
AfterFirstColon(l) ==
    LET i == CHOOSE k \in 1..Len(l) : l[k] = ":" /\ \A j \in 1..(k - 1) : l[j] # ":"
    IN  SubSeq(l, i + 1, Len(l))
\* The text of a line between its first ':' and its second one (or its end).
SecondField(l) == Split(l, ":")[2]

C27_Terminates ==
    <>(pc = "done" /\ attempt <= max_retries /\ Len(attempts) <= max_retries)

\* A run with a budget of 2 is done after two scored attempts below 70.
C27_Witness ==
    /\ pc = "done"
    /\ max_retries = 2
    /\ Len(attempts) = 2
    /\ \A k \in 1..2 : "path" \in DOMAIN attempts[k] /\ attempts[k].score \in 1..69
    /\ ~results[1].passed

(***************************************************************************)
(* The final handler.                                                      *)
(***************************************************************************)
\* C28: the file of every scored attempt keeps the code of that attempt;
\* when Finalize has written handler.py, its content is the code of the
\* earliest attempt with the maximum score, whatever an earlier run had
\* left there, and the record's final_handler names handler.py.
C28_FinalIsEarliestBest ==
    /\ \A k \in 1..Len(attempts) : "path" \in DOMAIN attempts[k] => disk[attempts[k].path] = k
    /\ (pc \in {"save", "done"} /\ final_handler # 0) =>
         /\ EarliestBest(attempts, 1) # 0
         /\ disk[0] = EarliestBest(attempts, 1)
         /\ disk[0] = disk[final_handler]
         /\ Result.final_handler # 0
    /\ (pc = "done" /\ final_handler # 0) =>
         Reload[1].v[8] = <<"final_handler", PyStr(<<"handler.py">>)>>
    /\ (pc \in {"save", "done"} /\ final_handler = 0) => disk[0] = Stale

\* Two attempts scored the same, below 70: handler.py holds the first one's code.
C28_Witness ==
    /\ pc = "done"
    /\ Len(attempts) = 2
    /\ \A k \in 1..2 : "path" \in DOMAIN attempts[k] /\ attempts[k].score = 40
    /\ final_handler = 1
    /\ disk[0] = 1
    /\ disk[2] = 2


(***************************************************************************)
(* The functional child inside evaluate.                                   *)
(***************************************************************************)
\* C33: when the handler's activate() or process() raises in the functional
\* child, the script prints no SCORE line, the functional score is 0 (the
\* points the script had counted are lost) and evaluate returns
\* 10 + structure_score + 20.
C33_RaisingHandlerScoresZero ==
    /\ \A lvl \in Levels, beh \in FuncBehaviours :
         HandlerRaised(lvl, beh) => test_handler(lvl, beh).crashed
    /\ (epc = "returned" /\ obs.funcEnv = "ok" /\ obs.funcRaised) =>
         /\ scores.functionality = 0
         /\ retval = SYNTAX_POINTS + scores.structure + LOADS_POINTS

\* C34: the loader child and the functional child stop at the same entry
\* of the namespace, the first type whose name ends in 'Handler'; when
\* there is none, _check_loads is False and the functional script prints
\* SCORE: 0.
C34_SameClassSelected ==
    /\ \A ns \in Namespaces :
         /\ LoaderSelect(ns) = FuncSelect(ns)
         /\ LoaderSelect(ns) # 0 =>
              /\ IsHandlerEntry(ns[LoaderSelect(ns)])
              /\ \A j \in 1..(LoaderSelect(ns) - 1) : ~IsHandlerEntry(ns[j])
         /\ LoaderSelect(ns) = 0 => \A j \in 1..Len(ns) : ~IsHandlerEntry(ns[j])
    /\ \A lvl \in Levels, beh \in FuncBehaviours :
         beh.inst = "noclass" =>
           /\ test_handler(lvl, beh) = [crashed |-> FALSE, score |-> 0]
           /\ beh.writes = <<>> => FuncStdout(lvl, beh) = SCORE_TAG \o <<" ", "0">> \o NL
    /\ (epc \in {"functionality", "returned"} /\ obs.loadEnv = "ok"
                                               /\ obs.loadInst = "noclass") =>
         scores.loads = 0

\* C37: at a level other than 1 the script's own score is at most 10, and
\* an evaluate call whose functional score comes from the script's own
\* SCORE line returns at most 60, below the pass threshold.
C37_UntestedLevelsCannotPass ==
    (epc = "returned" /\ level # 1 /\ obs.funcOwn) =>
      /\ obs.funcN <= ACTIVATE_POINTS
      /\ scores.functionality = obs.funcN
      /\ retval <= 60
      /\ retval < PASS_THRESHOLD

\* A level-2 call on a candidate of full structure whose handler has an
\* activate() that returns: 10 + 20 + 20 + 10.
C37_Witness ==
    /\ pc = "driver"
    /\ epc = "returned"
    /\ level = 2
    /\ obs.funcOwn
    /\ obs.funcN = 10
    /\ scores.structure = 20
    /\ retval = 60

(***************************************************************************)
(* The records of a run.                                                   *)
(***************************************************************************)
WellFormed(atts) ==
    \A k \in 1..Len(atts) :
       /\ atts[k].attempt = k
       /\ atts[k].score \in Int
       /\ ("path" \in DOMAIN atts[k]) # ("error" \in DOMAIN atts[k])
       /\ "error" \in DOMAIN atts[k] => atts[k].score = 0

AppendsOnly ==
    attempts' # attempts =>
      /\ Len(attempts') = Len(attempts) + 1
      /\ SubSeq(attempts', 1, Len(attempts)) = attempts

\* C32: the k-th attempt record has attempt = k, an integer score and
\* exactly one of the keys 'path' and 'error' (with score 0); the result
\* that run_challenge returns carries these records, and an iteration only
\* appends to the list.
C32_RecordsWellFormed ==
    /\ [](/\ WellFormed(attempts)
          /\ pc = "done" =>
               /\ results[Len(results)].attempts = attempts
               /\ WellFormed(results[Len(results)].attempts))
    /\ [][AppendsOnly]_vars

\* A returned result whose first record is an error and whose second is an
\* evaluated candidate.
C32_Witness ==
    /\ pc = "done"
    /\ Len(results[1].attempts) = 2
    /\ "error" \in DOMAIN results[1].attempts[1]
    /\ "path" \in DOMAIN results[1].attempts[2]
    /\ results[1].attempts[2].score > 0

\* C35: in a finished run passed is true exactly when the last attempt
\* record has a score >= 70; then best_score is that score and every
\* earlier record is below 70.
C35_PassedIffLastPasses ==
    pc = "done" =>
      LET r == results[Len(results)]
          n == Len(r.attempts)
      IN  /\ r.passed <=> (n > 0 /\ r.attempts[n].score >= PASS_THRESHOLD)
          /\ r.passed =>
               /\ r.best_score = r.attempts[n].score
               /\ \A k \in 1..(n - 1) : r.attempts[k].score < PASS_THRESHOLD

\* A run that passed on its second attempt, after a first one that scored
\* some points.
C35_Witness ==
    /\ pc = "done"
    /\ Len(results[1].attempts) = 2
    /\ results[1].attempts[1].score \in 1..69
    /\ results[1].attempts[2].score > PASS_THRESHOLD
    /\ results[1].passed
    /\ results[1].best_score = results[1].attempts[2].score

\* C36: best_score is never negative and never decreases; the best
\* candidate is set exactly when some attempt so far scored more than 0,
\* and never names an attempt that scored 0; after Finalize best_score is 0
\* exactly when handler.py was not written and final_handler is None.
C36_BestIsPositive ==
    /\ [](/\ best_score >= 0
          /\ (best_handler # 0) <=> (\E k \in 1..Len(attempts) : attempts[k].score > 0)
          /\ (best_handler # 0) <=> (best_score > 0)
          /\ best_handler # 0 => attempts[best_handler].score = best_score
          /\ pc \in {"save", "done"} =>
               /\ (best_score = 0) <=> (final_handler = 0)
               /\ best_score = 0 => disk[0] = Stale
               /\ best_score = 0 <=> Result.final_handler = 0
          /\ pc = "done" =>
               (best_score = 0 <=> results[Len(results)].final_handler = 0))
    /\ [][best_score' >= best_score]_vars

\* Two evaluated candidates that both scored 0: nothing was selected and
\* handler.py is as the earlier run left it.
C36_Witness ==
    /\ pc = "done"
    /\ Len(attempts) = 2
    /\ \A k \in 1..2 : "path" \in DOMAIN attempts[k] /\ attempts[k].score = 0
    /\ best_score = 0
    /\ best_handler = 0
    /\ results[1].final_handler = 0
    /\ disk[0] = Stale

(***************************************************************************)
(* The files of different runs.                                            *)
(***************************************************************************)
\* C31: different (model id, level, attempt) triples have different
\* per-attempt files and different (model id, level) pairs have different
\* final handler files, so that no run replaces a file of another pair.
C31_PathsInjective ==
    /\ fs.lost = {}
    /\ \A f \in fs.files :
         f.path = IF f.attempt = 0 THEN final_path(f.model, f.level)
                                   ELSE handler_path(f.model, f.level, f.attempt - 1)

(***************************************************************************)
(* The retry budget of the command line.                                   *)
(***************************************************************************)
\* C39: no run_challenge call that a command starts makes more attempts
\* than the --max-retries of its command line.
C39_BudgetFromCommandLine ==
    /\ cli.made <= cli.max_retries
    /\ cli.most <= cli.max_retries

(***************************************************************************)
(* The two controllers.                                                    *)
(***************************************************************************)
\* What the claim compares of an attempt record: its number, its score
\* and its path or its error.
Projection(rec) ==
    [attempt |-> rec.attempt,
     score |-> rec.score,
     ref |-> IF "path" \in DOMAIN rec THEN <<"path", rec.path>>
             ELSE IF "error" \in DOMAIN rec THEN <<"error", rec.error>>
             ELSE <<"none">>]

Projections(atts) == [k \in 1..Len(atts) |-> Projection(atts[k])]

\* C38: given the same budget and the same outcome for each attempt, the
\* two controllers make the same number of attempts, record the same
\* (attempt, score, path or error), have the same best_score and passed,
\* write the same final handler and hand one record each to _save_result;
\* and while both are in the loop after the same number of iterations,
\* their records and their best agree.
C38_RunnersEquivalent ==
    /\ (pair.rich.pc = "done" /\ pair.simple.pc = "done") =>
         /\ Len(pair.rich.result.attempts) = Len(pair.simple.result.attempts)
         /\ Projections(pair.rich.result.attempts) = Projections(pair.simple.result.attempts)
         /\ pair.rich.result.best_score = pair.simple.result.best_score
         /\ pair.rich.result.passed = pair.simple.result.passed
         /\ pair.rich.final = pair.simple.final
         /\ pair.rich.saved = 1
         /\ pair.simple.saved = 1
    /\ (pair.rich.pc = "loop" /\ pair.simple.pc = "loop"
                              /\ pair.rich.attempt = pair.simple.attempt) =>
         /\ Projections(pair.rich.attempts) = Projections(pair.simple.attempts)
         /\ pair.rich.best_score = pair.simple.best_score
         /\ pair.rich.best_handler = pair.simple.best_handler

\* Both controllers met an error, then a score of 40, with a budget of 2:
\* two records each, best_score 40, not passed, handler.py from attempt 2.
C38_Witness ==
    /\ pair.rich.pc = "done"
    /\ pair.simple.pc = "done"
    /\ pair.budget = 2
    /\ pair.outs[1].kind = "error"
    /\ pair.outs[2] = [kind |-> "score", score |-> 40]
    /\ Len(pair.rich.result.attempts) = 2
    /\ Len(pair.simple.result.attempts) = 2
    /\ pair.simple.result.best_score = 40
    /\ ~pair.rich.result.passed
    /\ pair.rich.final = 2
    /\ pair.simple.final = 2

=============================================================================
